---- MODULE Spec2Model ----
(***************************************************************************)
(* A model of the SGX Enclave Memory Manager: the EMA lists and the EDMM   *)
(* driver of ema.c, the bit arrays of bit_array.c and the internal heap of *)
(* emalloc.c.  Every public operation is one atomic step (the EMM holds    *)
(* one global lock for the whole call); the untrusted side and the         *)
(* hardware are an oracle that says which out-call or instruction fails.   *)
(***************************************************************************)
EXTENDS Integers, Sequences, FiniteSets, TLC

(***************************************************************************)
(* Bounds of the model.  Addresses are byte addresses; the page is scaled  *)
(* down so that a reserve of 16 pages fills up within the bounds.          *)
(***************************************************************************)
SGX_PAGE_SIZE == 16
UserPages == 3
RtsPages == 1
MaxAllocPages == 2
MaxRegionPages == 3
MaxRangePages == 3
MaxCalls == 3
MaxHwFail == 2

(***************************************************************************)
(* Program constants.                                                      *)
(***************************************************************************)
NULL == 0
EINVAL == 22
EACCES == 13
EEXIST == 17
ENOMEM == 12
EFAULT == 14
sizeof_ema_t == 72
sizeof_bit_array == 24
sizeof_mm_reserve_t == 32
header_size == 8
exact_match_increment == 8
min_block_size == 16
num_exact_list == 256
max_exact_size == min_block_size + exact_match_increment * (num_exact_list - 1)
META_RESERVE_SIZE == 65536
initial_reserve_size == 16 * SGX_PAGE_SIZE
guard_size == 8 * SGX_PAGE_SIZE
max_emalloc_size == 65536 * SGX_PAGE_SIZE
rts_ema_guard == -1
user_ema_guard == -2

ROUND_TO(x, align) == ((x + align - 1) \div align) * align
TRIM_TO(x, align) == (x \div align) * align
MAX(a, b) == IF a > b THEN a ELSE b
MIN(a, b) == IF a < b THEN a ELSE b

(***************************************************************************)
(* Local variables of the code: F applied to the values computed so far.   *)
(***************************************************************************)
With(x, F(_)) == F(x)

With2(x, y, F(_, _)) == F(x, y)

With3(x, y, z, F(_, _, _)) == F(x, y, z)

\* The least element of a non-empty set of numbers.
Least(S) == CHOOSE i \in S : \A j \in S : i <= j

(***************************************************************************)
(* The address space.  The static meta reserve lies in the enclave image,  *)
(* outside the modelled range; the enclave range [EnclaveBase, EnclaveEnd) *)
(* holds RtsPages below the user window and room for one more reserve of   *)
(* the heap above the pages the calls work on.                             *)
(***************************************************************************)
meta_reserve == 1024 * SGX_PAGE_SIZE
DataSrc == 2048 * SGX_PAGE_SIZE
mm_user_base == 128 * SGX_PAGE_SIZE
UserArea == mm_user_base + initial_reserve_size + 2 * guard_size
UserWindowEnd == UserArea + UserPages * SGX_PAGE_SIZE
EnclaveBase == mm_user_base - RtsPages * SGX_PAGE_SIZE
EnclaveEnd == UserWindowEnd + initial_reserve_size + 2 * guard_size

sgx_mm_is_within_enclave(addr, size) ==
    addr >= EnclaveBase /\ addr + size <= EnclaveEnd

\* is_within_user_range that tests the start of the range only
is_within_user_range_start(m, start, size) ==
    start >= mm_user_base /\ start <= m.mm_user_end

is_within_user_range(m, start, size) ==
    start >= mm_user_base /\ start + size <= m.mm_user_end

is_within_rts_range(m, start, size) ==
    start >= m.mm_user_end \/ start + size <= mm_user_base

(***************************************************************************)
(* Bytes.                                                                  *)
(***************************************************************************)
BitOf(b, i) == (b \div (2 ^ i)) % 2

RECURSIVE ByteAndFrom(_, _, _)
\* the bits i..7 of a & b
ByteAndFrom(a, b, i) ==
    IF i = 8 THEN 0
    ELSE BitOf(a, i) * BitOf(b, i) * (2 ^ i) + ByteAndFrom(a, b, i + 1)

ByteAnd(a, b) == ByteAndFrom(a, b, 0)

ByteOr(a, b) == a + b - ByteAnd(a, b)

ByteNot(a) == 255 - a

Shl8(b, k) == (b * (2 ^ k)) % 256

Shr8(b, k) == b \div (2 ^ k)

NUM_OF_BYTES(nbits) == ROUND_TO(nbits, 8) \div 8

set_mask(start, bits_to_set) == Shl8((2 ^ bits_to_set) - 1, start)

clear_mask(start, bits_to_clear) == ByteNot(set_mask(start, bits_to_clear))

(***************************************************************************)
(* A bit array: the struct at 'ptr' with its 'data' buffer at 'dptr'.      *)
(* data[i+1] is the C byte data[i].  No array is ptr = NULL.  A read       *)
(* outside the buffer is undefined in C: it yields what the oracle says.   *)
(***************************************************************************)
NoMap == [ptr |-> NULL, n_bytes |-> 0, n_bits |-> 0, dptr |-> NULL, data |-> <<>>]

InData(ba, i) == i >= 0 /\ i < Len(ba.data)

DataRead(ba, i, oob) == IF InData(ba, i) THEN ba.data[i + 1] ELSE oob

DataWrite(ba, i, v) ==
    IF InData(ba, i) THEN [ba EXCEPT !.data[i + 1] = v] ELSE ba

\* data[i] |= mask
DataOr(ba, i, mask) == DataWrite(ba, i, ByteOr(DataRead(ba, i, 0), mask))

\* data[i] &= mask
DataAnd(ba, i, mask) == DataWrite(ba, i, ByteAnd(DataRead(ba, i, 0), mask))

\* memset(data + from, v, n)
DataFill(ba, from, n, v) ==
    [ba EXCEPT !.data = [i \in DOMAIN ba.data |->
                            IF i - 1 >= from /\ i - 1 < from + n THEN v
                            ELSE ba.data[i]]]

ByteIndex(pos) == IF pos < 0 THEN -1 ELSE pos \div 8

bit_array_test(ba, pos, oob) ==
    ByteAnd(DataRead(ba, ByteIndex(pos), oob), 2 ^ (pos % 8)) # 0

bit_array_set(ba, pos) == DataOr(ba, ByteIndex(pos), 2 ^ (pos % 8))

bit_array_test_range(ba, pos, len, oob) ==
    With3(ByteIndex(pos), pos % 8, len - (8 - (pos % 8)),
          LAMBDA byte_index, bit_index, bits_remain :
              IF len <= 8 - bit_index
              THEN ByteAnd(DataRead(ba, byte_index, oob), set_mask(bit_index, len))
                       = set_mask(bit_index, len)
              ELSE /\ ByteAnd(DataRead(ba, byte_index, oob),
                              set_mask(bit_index, 8 - bit_index))
                          = set_mask(bit_index, 8 - bit_index)
                   /\ \A k \in 1..(bits_remain \div 8) :
                          DataRead(ba, byte_index + k, oob) = 255
                   /\ bits_remain % 8 > 0 =>
                          ByteAnd(DataRead(ba, byte_index + bits_remain \div 8 + 1, oob),
                                  set_mask(0, bits_remain % 8))
                              = set_mask(0, bits_remain % 8))

bit_array_test_range_any(ba, pos, len, oob) ==
    With3(ByteIndex(pos), pos % 8, len - (8 - (pos % 8)),
          LAMBDA byte_index, bit_index, bits_remain :
              IF len <= 8 - bit_index
              THEN ByteAnd(DataRead(ba, byte_index, oob), set_mask(bit_index, len)) # 0
              ELSE \/ ByteAnd(DataRead(ba, byte_index, oob),
                              set_mask(bit_index, 8 - bit_index)) # 0
                   \/ \E k \in 1..(bits_remain \div 8) :
                          DataRead(ba, byte_index + k, oob) # 0
                   \/ /\ bits_remain % 8 > 0
                      /\ ByteAnd(DataRead(ba, byte_index + bits_remain \div 8 + 1, oob),
                                 set_mask(0, bits_remain % 8)) # 0)

bit_array_set_range(ba, pos, len) ==
    With3(ByteIndex(pos), pos % 8, len - (8 - (pos % 8)),
          LAMBDA byte_index, bit_index, bits_remain :
              IF len <= 8 - bit_index
              THEN DataOr(ba, byte_index, set_mask(bit_index, len))
              ELSE With(DataFill(DataOr(ba, byte_index,
                                        set_mask(bit_index, 8 - bit_index)),
                                 byte_index + 1, bits_remain \div 8, 255),
                        LAMBDA mid :
                            IF bits_remain % 8 > 0
                            THEN DataOr(mid, byte_index + bits_remain \div 8 + 1,
                                        set_mask(0, bits_remain % 8))
                            ELSE mid))

bit_array_reset_range(ba, pos, len) ==
    With3(ByteIndex(pos), pos % 8, len - (8 - (pos % 8)),
          LAMBDA byte_index, bit_index, bits_remain :
              IF len <= 8 - bit_index
              THEN DataAnd(ba, byte_index, clear_mask(bit_index, len))
              ELSE With(DataFill(DataAnd(ba, byte_index,
                                         clear_mask(bit_index, 8 - bit_index)),
                                 byte_index + 1, bits_remain \div 8, 0),
                        LAMBDA mid :
                            IF bits_remain % 8 > 0
                            THEN DataAnd(mid, byte_index + bits_remain \div 8 + 1,
                                         clear_mask(0, bits_remain % 8))
                            ELSE mid))

bit_array_set_all(ba) == [ba EXCEPT !.data = [i \in DOMAIN ba.data |-> 255]]

bit_array_reset_all(ba) == [ba EXCEPT !.data = [i \in DOMAIN ba.data |-> 0]]

(***************************************************************************)
(* The machine state threaded through the code: the two EMA lists (in list *)
(* order, the guards implicit), the heap 'hp', the pages the enclave has   *)
(* accepted 'hw', the out-calls and instructions issued by the running     *)
(* public call 'trace', the oracle ('fail': which fallible hardware calls  *)
(* of this public call fail, counted by 'n'; 'oob': the byte an            *)
(* out-of-bounds read yields), 'ub': an out-of-bounds write happened, and  *)
(* 'halt': "run", or "abort" after abort(), or "hang" in an endless loop.  *)
(***************************************************************************)
Put(f, k, v) == [x \in (DOMAIN f) \cup {k} |-> IF x = k THEN v ELSE f[x]]

Drop(f, K) == [x \in (DOMAIN f) \ K |-> f[x]]

SeqRemove(s, x) == SelectSeq(s, LAMBDA y : y # x)

Res(m, ret) == [m |-> m, ret |-> ret]

Halt(m, how) == [m EXCEPT !.halt = how]

Running(m) == m.halt = "run"

(***************************************************************************)
(* emalloc.c: blocks.  hdr[b] is the header word of the block at b: its    *)
(* size, a multiple of 8, plus the allocated bit.  A free list is the      *)
(* sequence of its blocks from the head.                                   *)
(***************************************************************************)
payload_to_block(p) == p - header_size

block_to_payload(b) == b + header_size

Header(hp, b) == IF b \in DOMAIN hp.hdr THEN hp.hdr[b] ELSE 0

is_alloced(hp, b) == Header(hp, b) % 2 = 1

block_size(hp, b) == Header(hp, b) - (Header(hp, b) % exact_match_increment)

block_end(hp, b) == b + block_size(hp, b)

find_used_in_reserve(hp, addr, size) ==
    With({i \in 1..Len(hp.reserve_list) :
             /\ addr >= hp.reserve_list[i].base
             /\ addr + size <= hp.reserve_list[i].base + hp.reserve_list[i].used},
         LAMBDA hit : IF size = 0 \/ hit = {} THEN NULL ELSE Least(hit))

get_list_idx(size) ==
    IF size < min_block_size THEN 0
    ELSE (size - min_block_size) \div exact_match_increment

ExactList(hp, l) ==
    IF l \in DOMAIN hp.exact_block_list THEN hp.exact_block_list[l] ELSE <<>>

SetExactList(hp, l, s) ==
    [hp EXCEPT !.exact_block_list =
        IF s = <<>> THEN Drop(@, {l}) ELSE Put(@, l, s)]

remove_from_list(hp, b, list) ==
    IF list # <<>> /\ b = Head(list) THEN Tail(list)
    ELSE IF block_size(hp, b) > min_block_size THEN SeqRemove(list, b)
    ELSE list

remove_from_lists(hp, b) ==
    IF block_size(hp, b) > max_exact_size
    THEN [hp EXCEPT !.large_block_list = remove_from_list(hp, b, @)]
    ELSE With(get_list_idx(block_size(hp, b)),
              LAMBDA l : SetExactList(hp, l, remove_from_list(hp, b, ExactList(hp, l))))

prepend_to_list(b, list) == <<b>> \o list

put_exact_block(hp, b) ==
    With(get_list_idx(block_size(hp, b)),
         LAMBDA l : SetExactList(hp, l, prepend_to_list(b, ExactList(hp, l))))

\* neighbor_right that looks the block up by its size, so that it finds it.
neighbor_right_by_size(hp, me) ==
    With(block_end(hp, me), LAMBDA end :
    With(find_used_in_reserve(hp, me, block_size(hp, me)), LAMBDA r1 :
        IF r1 = NULL THEN NULL
        ELSE IF end = hp.reserve_list[r1].base + hp.reserve_list[r1].used THEN NULL
        ELSE IF r1 # find_used_in_reserve(hp, end, block_size(hp, end)) THEN NULL
        ELSE end))

neighbor_right(hp, me) ==
    With(block_end(hp, me), LAMBDA end :
    With(find_used_in_reserve(hp, me, end), LAMBDA r1 :
        IF r1 = NULL THEN NULL
        ELSE IF end = hp.reserve_list[r1].base + hp.reserve_list[r1].used THEN NULL
        ELSE IF r1 # find_used_in_reserve(hp, end, block_size(hp, end)) THEN NULL
        ELSE end))

\* The loop never changes 'nr': once entered it does not end.
possibly_merge(hp, b) ==
    With(neighbor_right(hp, b),
         LAMBDA nr : [hp |-> hp, hang |-> nr # NULL /\ is_alloced(hp, nr)])

put_free_block(hp, e) ==
    IF block_size(hp, e) <= max_exact_size THEN put_exact_block(hp, e)
    ELSE [hp EXCEPT !.large_block_list = prepend_to_list(e, @)]

split_free_block(hp, b, s) ==
    [hp EXCEPT !.hdr = Put(Put(@, b, s), b + s, Header(hp, b) - s)]

get_exact_match(hp, bsize) ==
    With2(get_list_idx(bsize), ExactList(hp, get_list_idx(bsize)),
          LAMBDA list, blocks :
              IF blocks = <<>> THEN [hp |-> hp, b |-> NULL]
              ELSE [hp |-> SetExactList(hp, list, Tail(blocks)), b |-> Head(blocks)])

\* In the large list: the first of the smallest fitting blocks.
get_free_block(hp, bsize) ==
    IF bsize <= max_exact_size THEN get_exact_match(hp, bsize)
    ELSE With({i \in 1..Len(hp.large_block_list) :
                  Header(hp, hp.large_block_list[i]) >= bsize},
              LAMBDA fit :
        IF fit = {} THEN [hp |-> hp, b |-> NULL]
        ELSE With(hp.large_block_list[
                      CHOOSE i \in fit : \A j \in fit :
                          \/ Header(hp, hp.large_block_list[i]) <
                                 Header(hp, hp.large_block_list[j])
                          \/ /\ Header(hp, hp.large_block_list[i]) =
                                    Header(hp, hp.large_block_list[j])
                             /\ i <= j],
                  LAMBDA best :
        With([hp EXCEPT !.large_block_list = remove_from_list(hp, best, @)],
             LAMBDA h1 :
                 IF Header(hp, best) >= bsize + min_block_size
                 THEN [hp |-> put_free_block(split_free_block(h1, best, bsize),
                                             best + bsize),
                       b |-> best]
                 ELSE [hp |-> h1, b |-> best])))

RECURSIVE merge_large_blocks_to_reserve(_, _, _)
\* get_large_block_end_at: the first large free block that ends at used_end
merge_large_blocks_to_reserve(hp, r, used_end) ==
    With({i \in 1..Len(hp.large_block_list) :
             hp.large_block_list[i] + Header(hp, hp.large_block_list[i]) = used_end},
         LAMBDA at :
        IF at = {}
        THEN [hp EXCEPT !.reserve_list[r].used = used_end - hp.reserve_list[r].base]
        ELSE With(hp.large_block_list[Least(at)], LAMBDA merge :
                 merge_large_blocks_to_reserve(
                     [hp EXCEPT !.large_block_list = remove_from_list(hp, merge, @),
                                !.hdr = Drop(@, {merge})],
                     r, used_end - Header(hp, merge))))

new_reserve(hp, base, rsize) ==
    [hp EXCEPT !.reserve_list =
        <<[ptr |-> base, base |-> base + sizeof_mm_reserve_t, used |-> 0,
           size |-> rsize - sizeof_mm_reserve_t]>> \o @]

\* alloc_from_reserve that hands out the block and leaves r->used as it was.
alloc_from_reserve_stale(hp, bsize) ==
    With({i \in 1..Len(hp.reserve_list) :
             hp.reserve_list[i].size - hp.reserve_list[i].used >= bsize},
         LAMBDA fit :
        IF fit = {} THEN [hp |-> hp, b |-> NULL]
        ELSE With(Least(fit), LAMBDA r :
                 [hp |-> hp,
                  b |-> hp.reserve_list[r].base + hp.reserve_list[r].used]))

alloc_from_reserve(hp, bsize) ==
    With({i \in 1..Len(hp.reserve_list) :
             hp.reserve_list[i].size - hp.reserve_list[i].used >= bsize},
         LAMBDA fit :
        IF fit = {} THEN [hp |-> hp, b |-> NULL]
        ELSE With(Least(fit), LAMBDA r :
                 [hp |-> [hp EXCEPT !.reserve_list[r].used = @ + bsize],
                  b |-> hp.reserve_list[r].base + hp.reserve_list[r].used]))

alloc_from_meta(hp, bsize) ==
    IF hp.meta_used + bsize > META_RESERVE_SIZE THEN [hp |-> hp, b |-> NULL]
    ELSE [hp |-> [hp EXCEPT !.meta_used = @ + bsize,
                            !.hdr = Put(@, meta_reserve + hp.meta_used, bsize + 1)],
          b |-> meta_reserve + hp.meta_used]

InMetaReserve(hp, b) ==
    /\ b < meta_reserve + META_RESERVE_SIZE
    /\ b + block_size(hp, b) > meta_reserve

can_erealloc(hp, payload) ==
    IF hp.adding_reserve THEN TRUE
    ELSE ~InMetaReserve(hp, payload_to_block(payload))

\* efree that leaves a block of the meta reserve alone at any time.
efree_meta_ignored(m, payload) ==
    IF ~Running(m) THEN m
    ELSE With(payload_to_block(payload), LAMBDA b :
        IF InMetaReserve(m.hp, b)
        THEN m
        ELSE With2(find_used_in_reserve(m.hp, b, block_size(m.hp, b)),
                   [m.hp EXCEPT !.hdr = Put(@, b, block_size(m.hp, b))],
                   LAMBDA r, h1 :
            IF r = NULL THEN Halt(m, "abort")
            ELSE IF possibly_merge(h1, b).hang THEN Halt(m, "hang")
            ELSE IF block_end(h1, b) - h1.reserve_list[r].base = h1.reserve_list[r].used
            THEN [m EXCEPT !.hp = merge_large_blocks_to_reserve(
                                      [h1 EXCEPT !.hdr = Drop(@, {b})], r, b)]
            ELSE [m EXCEPT !.hp = put_free_block(h1, b)]))

\* h1: the heap after reconfigure_block cleared the allocated bit of b.
efree(m, payload) ==
    IF ~Running(m) THEN m
    ELSE With(payload_to_block(payload), LAMBDA b :
        IF InMetaReserve(m.hp, b)
        THEN (IF m.hp.adding_reserve THEN m ELSE Halt(m, "abort"))
        ELSE With2(find_used_in_reserve(m.hp, b, block_size(m.hp, b)),
                   [m.hp EXCEPT !.hdr = Put(@, b, block_size(m.hp, b))],
                   LAMBDA r, h1 :
            IF r = NULL THEN Halt(m, "abort")
            ELSE IF possibly_merge(h1, b).hang THEN Halt(m, "hang")
            ELSE IF block_end(h1, b) - h1.reserve_list[r].base = h1.reserve_list[r].used
            THEN [m EXCEPT !.hp = merge_large_blocks_to_reserve(
                                      [h1 EXCEPT !.hdr = Drop(@, {b})], r, b)]
            ELSE [m EXCEPT !.hp = put_free_block(h1, b)]))

(***************************************************************************)
(* The calls of the program form cycles: emalloc grows the heap by         *)
(* add_reserve, which calls the public alloc and commit, which call        *)
(* ema_split and emalloc.  Such a call is made through Run, which runs the *)
(* body of the operation called and is defined after all of them.          *)
(***************************************************************************)
RECURSIVE Run(_, _)

emalloc(m, size) == Run(m, [op |-> "emalloc", size |-> size])

ema_split(m, ema, addr, new_lower) ==
    Run(m, [op |-> "ema_split", ema |-> ema, addr |-> addr, new_lower |-> new_lower])

\* A public call: 'arg' is the flags of an alloc, the protection of a
\* commit_data or a modify_permissions, the type of a modify_type.
PublicCall(op, addr, size, arg) ==
    [op |-> op, addr |-> addr, size |-> size, arg |-> arg]

(***************************************************************************)
(* bit_array.c: the operations that allocate.                              *)
(***************************************************************************)
\* The contents of the new buffer are uninitialised; every caller writes
\* all of its bytes before any is read.
bit_array_new(m, num_of_bits) ==
    IF num_of_bits = 0 THEN Res(m, NoMap)
    ELSE With(emalloc(m, sizeof_bit_array), LAMBDA ba :
        IF ba.ret = NULL THEN Res(ba.m, NoMap)
        ELSE With(emalloc(ba.m, NUM_OF_BYTES(num_of_bits)), LAMBDA data :
            IF data.ret = NULL THEN Res(efree(data.m, ba.ret), NoMap)
            ELSE Res(data.m,
                     [ptr |-> ba.ret, n_bytes |-> NUM_OF_BYTES(num_of_bits),
                      n_bits |-> num_of_bits, dptr |-> data.ret,
                      data |-> [i \in 1..NUM_OF_BYTES(num_of_bits) |-> 0]])))

bit_array_new_set(m, num_of_bits) ==
    With(bit_array_new(m, num_of_bits), LAMBDA ba :
        IF ba.ret.ptr = NULL THEN ba ELSE Res(ba.m, bit_array_set_all(ba.ret)))

bit_array_new_reset(m, num_of_bits) ==
    With(bit_array_new(m, num_of_bits), LAMBDA ba :
        IF ba.ret.ptr = NULL THEN ba ELSE Res(ba.m, bit_array_reset_all(ba.ret)))

bit_array_delete(m, ba) == efree(efree(m, ba.dptr), ba.ptr)

bit_array_reattach(m, ba, num_of_bits, dptr, data) ==
    Res(IF ba.dptr # NULL THEN efree(m, ba.dptr) ELSE m,
        [ba EXCEPT !.n_bytes = NUM_OF_BYTES(num_of_bits), !.n_bits = num_of_bits,
                   !.dptr = dptr, !.data = data])

\* bit_array_split that copies the higher bytes without shifting them.
bit_array_split_unshifted(m, ba, pos) ==
    LET \* the bytes below byte_index, and the low bits of the byte at it
        LowerData(byte_index, bit_index) ==
            [i \in 1..NUM_OF_BYTES(pos) |->
                IF i - 1 < byte_index THEN ba.data[i]
                ELSE ByteAnd(ba.data[i], (2 ^ bit_index) - 1)]
        \* data[i], the bits left where they are
        Both(i, bit_index) ==
            DataRead(ba, i, m.oob)
        \* the bits from bit_index of the byte at byte_index on
        HigherData(byte_index, bit_index, r_bits, n_bytes) ==
            [i \in 1..n_bytes |->
                IF i - 1 < r_bits \div 8 THEN Both(byte_index + i - 1, bit_index)
                ELSE IF r_bits % 8 > 8 - bit_index
                THEN Both(byte_index + r_bits \div 8, bit_index)
                ELSE Shr8(DataRead(ba, byte_index + r_bits \div 8, m.oob), bit_index)]
    IN  IF pos = 0
        THEN [m |-> m, ret |-> 0, new_lower |-> NoMap, new_higher |-> ba]
        ELSE IF pos >= ba.n_bits
        THEN [m |-> m, ret |-> 0, new_lower |-> ba, new_higher |-> NoMap]
        ELSE With(emalloc(m, NUM_OF_BYTES(pos)), LAMBDA data :
            IF data.ret = NULL
            THEN [m |-> data.m, ret |-> ENOMEM, new_lower |-> NoMap,
                  new_higher |-> NoMap]
            ELSE With(bit_array_new(data.m, ba.n_bits - pos), LAMBDA ba2 :
                IF ba2.ret.ptr = NULL
                THEN [m |-> efree(ba2.m, data.ret), ret |-> ENOMEM,
                      new_lower |-> NoMap, new_higher |-> NoMap]
                ELSE With(bit_array_reattach(ba2.m, ba, pos, data.ret,
                                             LowerData(pos \div 8, pos % 8)),
                          LAMBDA re :
                    [m |-> re.m, ret |-> 0, new_lower |-> re.ret,
                     new_higher |->
                         [ba2.ret EXCEPT !.data =
                             HigherData(pos \div 8, pos % 8, ba.n_bits - pos,
                                        ba2.ret.n_bytes)]])))

\* Returns ret, and on success the arrays new_lower and new_higher.
bit_array_split(m, ba, pos) ==
    LET \* the bytes below byte_index, and the low bits of the byte at it
        LowerData(byte_index, bit_index) ==
            [i \in 1..NUM_OF_BYTES(pos) |->
                IF i - 1 < byte_index THEN ba.data[i]
                ELSE ByteAnd(ba.data[i], (2 ^ bit_index) - 1)]
        \* data[i] >> bit_index | data[i + 1] << (8 - bit_index)
        Both(i, bit_index) ==
            ByteOr(Shr8(DataRead(ba, i, m.oob), bit_index),
                   Shl8(DataRead(ba, i + 1, m.oob), 8 - bit_index))
        \* the bits from bit_index of the byte at byte_index on
        HigherData(byte_index, bit_index, r_bits, n_bytes) ==
            [i \in 1..n_bytes |->
                IF i - 1 < r_bits \div 8 THEN Both(byte_index + i - 1, bit_index)
                ELSE IF r_bits % 8 > 8 - bit_index
                THEN Both(byte_index + r_bits \div 8, bit_index)
                ELSE Shr8(DataRead(ba, byte_index + r_bits \div 8, m.oob), bit_index)]
    IN  IF pos = 0
        THEN [m |-> m, ret |-> 0, new_lower |-> NoMap, new_higher |-> ba]
        ELSE IF pos >= ba.n_bits
        THEN [m |-> m, ret |-> 0, new_lower |-> ba, new_higher |-> NoMap]
        ELSE With(emalloc(m, NUM_OF_BYTES(pos)), LAMBDA data :
            IF data.ret = NULL
            THEN [m |-> data.m, ret |-> ENOMEM, new_lower |-> NoMap,
                  new_higher |-> NoMap]
            ELSE With(bit_array_new(data.m, ba.n_bits - pos), LAMBDA ba2 :
                IF ba2.ret.ptr = NULL
                THEN [m |-> efree(ba2.m, data.ret), ret |-> ENOMEM,
                      new_lower |-> NoMap, new_higher |-> NoMap]
                ELSE With(bit_array_reattach(ba2.m, ba, pos, data.ret,
                                             LowerData(pos \div 8, pos % 8)),
                          LAMBDA re :
                    [m |-> re.m, ret |-> 0, new_lower |-> re.ret,
                     new_higher |->
                         [ba2.ret EXCEPT !.data =
                             HigherData(pos \div 8, pos % 8, ba.n_bits - pos,
                                        ba2.ret.n_bytes)]])))

(***************************************************************************)
(* ema.c: the two lists.  A node is named by its address 'ptr'; the guard  *)
(* of a list stands for its end.  prot and type are parts of si_flags, a   *)
(* set of flag names, as alloc_flags is.                                   *)
(***************************************************************************)
SGX_EMA_PROT_MASK == {"R", "W", "X"}
SGX_EMA_PAGE_TYPE_MASK == {"REG", "TCS", "TRIM"}
SGX_EMA_PROT_NONE == {}
SGX_EMA_PROT_READ == {"R"}
SGX_EMA_PROT_READ_WRITE == {"R", "W"}

IsGuard(p) == p \in {rts_ema_guard, user_ema_guard}

OnList(m, g) == IF g = rts_ema_guard THEN m.rts ELSE m.user

SetList(m, g, s) == IF g = rts_ema_guard THEN [m EXCEPT !.rts = s]
                    ELSE [m EXCEPT !.user = s]

PtrsOf(list) == {list[i].ptr : i \in 1..Len(list)}

GuardOf(m, p) == IF IsGuard(p) THEN p
                 ELSE IF p \in PtrsOf(m.rts) THEN rts_ema_guard
                 ELSE user_ema_guard

IndexOf(list, p) == CHOOSE i \in 1..Len(list) : list[i].ptr = p

Node(m, p) == With(OnList(m, GuardOf(m, p)), LAMBDA l : l[IndexOf(l, p)])

SetNode(m, p, e) ==
    With2(GuardOf(m, p), OnList(m, GuardOf(m, p)),
          LAMBDA g, l : SetList(m, g, [l EXCEPT ![IndexOf(l, p)] = e]))

ema_next(m, p) ==
    With(OnList(m, GuardOf(m, p)), LAMBDA l :
        IF IsGuard(p) THEN (IF l = <<>> THEN p ELSE l[1].ptr)
        ELSE With(IndexOf(l, p), LAMBDA k :
                 IF k = Len(l) THEN GuardOf(m, p) ELSE l[k + 1].ptr))

ema_prev(m, p) ==
    With(OnList(m, GuardOf(m, p)), LAMBDA l :
        IF IsGuard(p) THEN (IF l = <<>> THEN p ELSE l[Len(l)].ptr)
        ELSE With(IndexOf(l, p), LAMBDA k :
                 IF k = 1 THEN GuardOf(m, p) ELSE l[k - 1].ptr))

ema_end(e) == e.start_addr + e.size

ema_lower_than_addr(e, addr) == ema_end(e) <= addr

ema_higher_than_addr(e, addr) == e.start_addr >= addr

ema_overlap_addr(e, addr) == addr >= e.start_addr /\ addr < ema_end(e)

ema_page_committed(m, p, addr) ==
    With(Node(m, p), LAMBDA e :
        IF e.eaccept_map.ptr = NULL THEN FALSE
        ELSE bit_array_test(e.eaccept_map,
                            (addr - e.start_addr) \div SGX_PAGE_SIZE, m.oob))

search_ema(m, root, addr) ==
    With(OnList(m, root), LAMBDA l :
        With({i \in 1..Len(l) : ema_overlap_addr(l[i], addr)}, LAMBDA hit :
            IF hit = {} THEN NULL ELSE l[Least(hit)].ptr))

\* insert 'new_node' before the node 'node'
insert_ema(m, new_node, node) ==
    With2(GuardOf(m, node), OnList(m, GuardOf(m, node)), LAMBDA g, l :
        With(IF IsGuard(node) THEN Len(l) + 1 ELSE IndexOf(l, node), LAMBDA k :
            SetList(m, g, SubSeq(l, 1, k - 1) \o <<new_node>> \o SubSeq(l, k, Len(l)))))

replace_ema(m, new_node, old_node) == SetNode(m, old_node, new_node)

remove_ema(m, node) ==
    With(GuardOf(m, node), LAMBDA g :
        SetList(m, g, SelectSeq(OnList(m, g), LAMBDA e : e.ptr # node)))

\* ret = -1: no node overlaps [start, end)
search_ema_range(m, root, start, end) ==
    With(OnList(m, root), LAMBDA l :
    With({i \in 1..Len(l) : ~ema_lower_than_addr(l[i], start)}, LAMBDA notlow :
        IF notlow = {}
        THEN [ret |-> -1, ema_begin |-> NULL, ema_end |-> NULL]
        ELSE With(Least(notlow), LAMBDA b :
            IF ema_higher_than_addr(l[b], end)
            THEN [ret |-> -1, ema_begin |-> NULL, ema_end |-> NULL]
            ELSE With({i \in b..Len(l) : ema_higher_than_addr(l[i], end)},
                      LAMBDA high :
                [ret |-> 0, ema_begin |-> l[b].ptr,
                 ema_end |-> IF high = {} THEN root ELSE l[Least(high)].ptr]))))

\* The body of ema_split.
ema_split_body(m, ema, addr, new_lower) ==
    LET \* the two halves of 'old' cut at addr, with the maps of the split 'sp'
        LowerHalf(old, ptr, sp) ==
            [old EXCEPT !.ptr = ptr, !.size = addr - old.start_addr,
                        !.eaccept_map = sp.new_lower]
        HigherHalf(old, ptr, sp) ==
            [old EXCEPT !.ptr = ptr, !.start_addr = addr,
                        !.size = old.size - (addr - old.start_addr),
                        !.eaccept_map = sp.new_higher]
    IN  With(emalloc(m, sizeof_ema_t), LAMBDA a :
            IF ~Running(a.m) \/ a.ret = NULL
            THEN [m |-> a.m, ret |-> ENOMEM, node |-> NULL]
            ELSE With(Node(a.m, ema), LAMBDA old :
                With(IF old.eaccept_map.ptr # NULL
                     THEN bit_array_split(a.m, old.eaccept_map,
                                          (addr - old.start_addr) \div SGX_PAGE_SIZE)
                     ELSE [m |-> a.m, ret |-> 0, new_lower |-> NoMap,
                           new_higher |-> NoMap],
                     LAMBDA sp :
                    IF sp.ret # 0
                    THEN [m |-> efree(sp.m, a.ret), ret |-> sp.ret, node |-> NULL]
                    ELSE IF new_lower
                    THEN [m |-> insert_ema(
                                    SetNode(sp.m, ema, HigherHalf(old, ema, sp)),
                                    LowerHalf(old, a.ret, sp), ema),
                          ret |-> 0, node |-> a.ret]
                    ELSE [m |-> insert_ema(
                                    SetNode(sp.m, ema, LowerHalf(old, ema, sp)),
                                    HigherHalf(old, a.ret, sp),
                                    ema_next(sp.m, ema)),
                          ret |-> 0, node |-> a.ret])))

\* ema_split_ex that also splits at the start of the node
ema_split_ex_always(m, ema, start, end) ==
    With(IF start >= Node(m, ema).start_addr
         THEN ema_split(m, ema, start, FALSE)
         ELSE [m |-> m, ret |-> 0, node |-> ema],
         LAMBDA s1 :
            IF s1.ret # 0 THEN s1
            ELSE IF end < ema_end(Node(s1.m, s1.node))
            THEN ema_split(s1.m, s1.node, end, TRUE)
            ELSE [m |-> s1.m, ret |-> 0, node |-> s1.node])

ema_split_ex(m, ema, start, end) ==
    With(IF start > Node(m, ema).start_addr
         THEN ema_split(m, ema, start, FALSE)
         ELSE [m |-> m, ret |-> 0, node |-> ema],
         LAMBDA s1 :
            IF s1.ret # 0 THEN s1
            ELSE IF end < ema_end(Node(s1.m, s1.node))
            THEN ema_split(s1.m, s1.node, end, TRUE)
            ELSE [m |-> s1.m, ret |-> 0, node |-> s1.node])

ema_aligned_end(e, align) == ROUND_TO(ema_end(e), align)

Found(addr, next_ema) == [found |-> TRUE, addr |-> addr, next_ema |-> next_ema]

NotFound == [found |-> FALSE, addr |-> 0, next_ema |-> NULL]

\* find_free_region on an empty list
find_free_region_empty(m, root, size, align) ==
    IF root = rts_ema_guard
    THEN (IF /\ mm_user_base >= size
             /\ sgx_mm_is_within_enclave(TRIM_TO(mm_user_base - size, align), size)
          THEN Found(TRIM_TO(mm_user_base - size, align), root)
          ELSE IF sgx_mm_is_within_enclave(ROUND_TO(m.mm_user_end, align), size)
          THEN Found(ROUND_TO(m.mm_user_end, align), root)
          ELSE NotFound)
    ELSE IF is_within_user_range(m, ROUND_TO(mm_user_base, align), size)
    THEN Found(ROUND_TO(mm_user_base, align), root)
    ELSE NotFound

\* Returns found, and when found the address and the node to insert before.
\* find_free_region that takes the first gap between two nodes, whatever
\* its size
find_free_region_anygap(m, root, size, align) ==
    With2(root = rts_ema_guard, OnList(m, root), LAMBDA is_rts, l :
        IF l = <<>> THEN find_free_region_empty(m, root, size, align)
        ELSE With3({i \in 1..(Len(l) - 1) :
                       /\ ema_aligned_end(l[i], align) < l[i + 1].start_addr
                       /\ (~is_rts \/ is_within_rts_range(
                                          m, ema_aligned_end(l[i], align), size))},
                   ema_aligned_end(l[Len(l)], align),
                   TRIM_TO(l[1].start_addr - size, align),
                   LAMBDA gaps, top, low :
            IF gaps # {}
            THEN Found(ema_aligned_end(l[Least(gaps)], align), l[Least(gaps) + 1].ptr)
            ELSE IF /\ sgx_mm_is_within_enclave(top, size)
                    /\ \/ is_rts /\ is_within_rts_range(m, top, size)
                       \/ ~is_rts /\ is_within_user_range(m, top, size)
            THEN Found(top, root)
            ELSE IF l[1].start_addr < size THEN NotFound
            ELSE IF ~is_rts
            THEN (IF is_within_user_range(m, low, size) THEN Found(low, l[1].ptr)
                  ELSE NotFound)
            ELSE IF /\ sgx_mm_is_within_enclave(low, size)
                    /\ is_within_rts_range(m, low, size)
            THEN Found(low, l[1].ptr)
            ELSE NotFound))

find_free_region(m, root, size, align) ==
    With2(root = rts_ema_guard, OnList(m, root), LAMBDA is_rts, l :
        IF l = <<>> THEN find_free_region_empty(m, root, size, align)
        ELSE With3({i \in 1..(Len(l) - 1) :
                       /\ ema_aligned_end(l[i], align) <= l[i + 1].start_addr
                       /\ l[i + 1].start_addr - ema_aligned_end(l[i], align) >= size
                       /\ (~is_rts \/ is_within_rts_range(
                                          m, ema_aligned_end(l[i], align), size))},
                   ema_aligned_end(l[Len(l)], align),
                   TRIM_TO(l[1].start_addr - size, align),
                   LAMBDA gaps, top, low :
            IF gaps # {}
            THEN Found(ema_aligned_end(l[Least(gaps)], align), l[Least(gaps) + 1].ptr)
            ELSE IF /\ sgx_mm_is_within_enclave(top, size)
                    /\ \/ is_rts /\ is_within_rts_range(m, top, size)
                       \/ ~is_rts /\ is_within_user_range(m, top, size)
            THEN Found(top, root)
            ELSE IF l[1].start_addr < size THEN NotFound
            ELSE IF ~is_rts
            THEN (IF is_within_user_range(m, low, size) THEN Found(low, l[1].ptr)
                  ELSE NotFound)
            ELSE IF /\ sgx_mm_is_within_enclave(low, size)
                    /\ is_within_rts_range(m, low, size)
            THEN Found(low, l[1].ptr)
            ELSE NotFound))

\* 'stop': the nodes that do not lie wholly below addr.
\* find_free_region_at that looks at the start of the range only
find_free_region_at_start(m, root, addr, size) ==
    IF ~sgx_mm_is_within_enclave(addr, size)
    THEN [found |-> FALSE, next_ema |-> NULL]
    ELSE IF \/ root = rts_ema_guard /\ ~is_within_rts_range(m, addr, size)
            \/ root # rts_ema_guard /\ ~is_within_user_range(m, addr, size)
    THEN [found |-> FALSE, next_ema |-> NULL]
    ELSE With(OnList(m, root), LAMBDA l :
        With({i \in 1..Len(l) : ~(addr >= ema_end(l[i]))}, LAMBDA stop :
            IF stop = {} THEN [found |-> TRUE, next_ema |-> root]
            ELSE IF l[Least(stop)].start_addr > addr
            THEN [found |-> TRUE, next_ema |-> l[Least(stop)].ptr]
            ELSE [found |-> FALSE, next_ema |-> NULL]))

find_free_region_at(m, root, addr, size) ==
    IF ~sgx_mm_is_within_enclave(addr, size)
    THEN [found |-> FALSE, next_ema |-> NULL]
    ELSE IF \/ root = rts_ema_guard /\ ~is_within_rts_range(m, addr, size)
            \/ root # rts_ema_guard /\ ~is_within_user_range(m, addr, size)
    THEN [found |-> FALSE, next_ema |-> NULL]
    ELSE With(OnList(m, root), LAMBDA l :
        With({i \in 1..Len(l) : ~(addr >= ema_end(l[i]))}, LAMBDA stop :
            IF stop = {} THEN [found |-> TRUE, next_ema |-> root]
            ELSE IF l[Least(stop)].start_addr >= addr + size
            THEN [found |-> TRUE, next_ema |-> l[Least(stop)].ptr]
            ELSE [found |-> FALSE, next_ema |-> NULL]))

\* The temporary node lives on the stack of the call: at most one per
\* nesting level of add_reserve.
StackTmp(m) == IF m.hp.adding_reserve THEN -4 ELSE -3

\* ema_new that links the node after the allocation only
ema_new_late(m, addr, size, alloc_flags, si_flags, handler, private_data, next_ema) ==
    With([ptr |-> StackTmp(m), start_addr |-> addr, size |-> size,
          alloc_flags |-> alloc_flags, si_flags |-> si_flags,
          eaccept_map |-> NoMap, handler |-> handler, priv |-> private_data],
         LAMBDA tmp :
        With(emalloc(m, sizeof_ema_t), LAMBDA a :
            IF ~Running(a.m) THEN Res(a.m, NULL)
            ELSE IF a.ret # NULL
            THEN Res(insert_ema(a.m, [tmp EXCEPT !.ptr = a.ret], next_ema), a.ret)
            ELSE Res(a.m, NULL)))

ema_new(m, addr, size, alloc_flags, si_flags, handler, private_data, next_ema) ==
    With([ptr |-> StackTmp(m), start_addr |-> addr, size |-> size,
          alloc_flags |-> alloc_flags, si_flags |-> si_flags,
          eaccept_map |-> NoMap, handler |-> handler, priv |-> private_data],
         LAMBDA tmp :
        With(emalloc(insert_ema(m, tmp, next_ema), sizeof_ema_t), LAMBDA a :
            IF ~Running(a.m) THEN Res(a.m, NULL)
            ELSE IF a.ret # NULL
            THEN Res(replace_ema(a.m, [tmp EXCEPT !.ptr = a.ret], tmp.ptr), a.ret)
            ELSE Res(remove_ema(a.m, tmp.ptr), NULL)))

ema_destroy(m, ema) ==
    IF ~Running(m) THEN m
    ELSE With(Node(m, ema).eaccept_map, LAMBDA map :
        efree(IF map.ptr # NULL THEN bit_array_delete(remove_ema(m, ema), map)
              ELSE remove_ema(m, ema),
              ema))

(***************************************************************************)
(* The runtime abstraction layer: out-calls and in-enclave instructions.   *)
(* Each is recorded in the trace, with whether it failed.  A fallible one  *)
(* fails when the oracle says so, with the error code HwErr, and then has  *)
(* no effect.                                                              *)
(***************************************************************************)
HwErr == 1

Event(op, addr, len, si, to, src) ==
    [op |-> op, addr |-> addr, len |-> len, si |-> si, to |-> to, src |-> src,
     failed |-> FALSE]

Fails(m) == (m.n + 1) \in m.fail

Issue(m, ev) ==
    [m EXCEPT !.trace = Append(@, [ev EXCEPT !.failed = Fails(m)]), !.n = @ + 1]

sgx_mm_alloc_ocall(m, addr, size, type, alloc_flags) ==
    Res(Issue(m, Event("alloc_ocall", addr, size, type, alloc_flags, 0)),
        IF Fails(m) THEN HwErr ELSE 0)

sgx_mm_modify_ocall(m, addr, size, flags_from, flags_to) ==
    Res(Issue(m, Event("modify_ocall", addr, size, flags_from, flags_to, 0)),
        IF Fails(m) THEN HwErr ELSE 0)

do_eaccept(m, si, addr) ==
    With(Issue(m, Event("eaccept", addr, SGX_PAGE_SIZE, si, {}, 0)), LAMBDA m1 :
        IF Fails(m) THEN Res(m1, HwErr)
        ELSE IF "PENDING" \in si THEN Res([m1 EXCEPT !.hw = @ \cup {addr}], 0)
        ELSE IF {"MODIFIED", "TRIM"} \subseteq si
        THEN Res([m1 EXCEPT !.hw = @ \ {addr}], 0)
        ELSE Res(m1, 0))

do_emodpe(m, si, addr) ==
    [m EXCEPT !.trace = Append(@, Event("emodpe", addr, SGX_PAGE_SIZE, si, {}, 0))]

do_eacceptcopy(m, si, addr, src) ==
    With(Issue(m, Event("eacceptcopy", addr, SGX_PAGE_SIZE, si, {}, src)),
         LAMBDA m1 :
            IF Fails(m) THEN Res(m1, HwErr)
            ELSE Res([m1 EXCEPT !.hw = @ \cup {addr}], 0))

(***************************************************************************)
(* ema.c: the EDMM driver.                                                 *)
(***************************************************************************)
SetMap(m, p, ba) == SetNode(m, p, [Node(m, p) EXCEPT !.eaccept_map = ba])

PagePos(e, addr) ==
    IF addr >= e.start_addr THEN (addr - e.start_addr) \div SGX_PAGE_SIZE
    ELSE -((e.start_addr - addr) \div SGX_PAGE_SIZE)

\* a write of bits [pos, pos+len) that leaves the buffer of ba
WriteOutside(ba, pos, len) ==
    pos < 0 \/ len < 0 \/ NUM_OF_BYTES(pos + len) > Len(ba.data)

\* The new map 'r' becomes the map of 'node', if there is one.
AttachMap(r, node) ==
    IF r.ret.ptr = NULL THEN Res(r.m, ENOMEM) ELSE Res(SetMap(r.m, node, r.ret), 0)

ema_set_eaccept_full(m, node) ==
    With(Node(m, node), LAMBDA e :
        IF e.eaccept_map.ptr = NULL
        THEN AttachMap(bit_array_new_set(m, e.size \div SGX_PAGE_SIZE), node)
        ELSE Res(SetMap(m, node, bit_array_set_all(e.eaccept_map)), 0))

ema_clear_eaccept_full(m, node) ==
    With(Node(m, node), LAMBDA e :
        IF e.eaccept_map.ptr = NULL
        THEN AttachMap(bit_array_new_reset(m, e.size \div SGX_PAGE_SIZE), node)
        ELSE Res(SetMap(m, node, bit_array_reset_all(e.eaccept_map)), 0))

ema_set_eaccept(m, node, start, end) ==
    With(Node(m, node), LAMBDA e :
        With(IF e.eaccept_map.ptr = NULL
             THEN bit_array_new_reset(m, e.size \div SGX_PAGE_SIZE)
             ELSE Res(m, e.eaccept_map),
             LAMBDA r :
                IF r.ret.ptr = NULL THEN Res(r.m, ENOMEM)
                ELSE Res(SetMap(r.m, node,
                                bit_array_set_range(
                                    r.ret, PagePos(e, start),
                                    PagePos(e, end) - PagePos(e, start))),
                         0)))

RECURSIVE eaccept_range_forward(_, _, _, _)
eaccept_range_forward(m, si, start, end) ==
    IF ~(start < end) THEN Res(m, 0)
    ELSE With(do_eaccept(m, si, start), LAMBDA r :
        IF r.ret # 0 THEN Res(Halt(r.m, "abort"), r.ret)
        ELSE eaccept_range_forward(r.m, si, start + SGX_PAGE_SIZE, end))

RECURSIVE eaccept_range_backward(_, _, _, _)
eaccept_range_backward(m, si, start, end) ==
    With(do_eaccept(m, si, end - SGX_PAGE_SIZE), LAMBDA r :
        IF r.ret # 0 THEN Res(Halt(r.m, "abort"), r.ret)
        ELSE IF end - SGX_PAGE_SIZE > start
        THEN eaccept_range_backward(r.m, si, start, end - SGX_PAGE_SIZE)
        ELSE Res(r.m, 0))

do_commit(m, start, size, si_flags, grow_up) ==
    IF grow_up
    THEN eaccept_range_backward(m, si_flags \cup {"PENDING"}, start, start + size)
    ELSE eaccept_range_forward(m, si_flags \cup {"PENDING"}, start, start + size)

\* The page at addr of 'node' accepted and its bit set.
ema_do_commit_page(m, node, addr) ==
    With(do_eaccept(m, {"REG", "R", "W", "PENDING"}, addr), LAMBDA r :
        IF r.ret # 0 THEN r
        ELSE With(Node(r.m, node), LAMBDA e :
                 Res(SetMap(r.m, node,
                            bit_array_set(e.eaccept_map, PagePos(e, addr))), 0)))

\* the loop of ema_do_commit without the skip of committed pages
RECURSIVE ema_do_commit_from_noskip(_, _, _, _)
ema_do_commit_from_noskip(m, node, addr, real_end) ==
    IF ~(addr < real_end) THEN Res(m, 0)
    ELSE With(ema_do_commit_page(m, node, addr), LAMBDA r :
        IF r.ret # 0 THEN r
        ELSE ema_do_commit_from_noskip(r.m, node, addr + SGX_PAGE_SIZE, real_end))

RECURSIVE ema_do_commit_from(_, _, _, _)
ema_do_commit_from(m, node, addr, real_end) ==
    IF ~(addr < real_end) THEN Res(m, 0)
    ELSE IF bit_array_test(Node(m, node).eaccept_map,
                           PagePos(Node(m, node), addr), m.oob)
    THEN ema_do_commit_from(m, node, addr + SGX_PAGE_SIZE, real_end)
    ELSE With(ema_do_commit_page(m, node, addr), LAMBDA r :
        IF r.ret # 0 THEN r
        ELSE ema_do_commit_from(r.m, node, addr + SGX_PAGE_SIZE, real_end))

\* ema_do_commit that does not clip the range to the request
ema_do_commit_whole(m, node, start, end) ==
    ema_do_commit_from(m, node, Node(m, node).start_addr, ema_end(Node(m, node)))

ema_do_commit(m, node, start, end) ==
    ema_do_commit_from(m, node, MAX(start, Node(m, node).start_addr),
                       MIN(end, ema_end(Node(m, node))))

\* The nodes from 'first' up to, not including, 'last'.
RECURSIVE Span(_, _, _)
Span(m, first, last) ==
    IF first = last \/ IsGuard(first) THEN <<>>
    ELSE <<first>> \o Span(m, ema_next(m, first), last)

\* The index of the first node of the span that fails a check, 0 if none.
FirstBad(sp, Bad(_)) ==
    With({i \in 1..Len(sp) : Bad(i)},
         LAMBDA hit : IF hit = {} THEN 0 ELSE Least(hit))

\* The code of the first node of the span that has one, 0 if none.
FirstCode(sp, Code(_)) ==
    With({i \in 1..Len(sp) : Code(i) # 0},
         LAMBDA hit : IF hit = {} THEN 0 ELSE Code(Least(hit)))

PrevEnd(m, sp, i) ==
    IF i = 1 THEN Node(m, sp[1]).start_addr ELSE ema_end(Node(m, sp[i - 1]))

\* The end of a can_X loop: the code found, or EINVAL when the nodes stop
\* short of 'end'.
Checked(m, sp, end, code) ==
    IF code # 0 THEN code
    ELSE IF PrevEnd(m, sp, Len(sp) + 1) < end THEN EINVAL
    ELSE 0

ema_can_commit(m, first, last, start, end) ==
    With(Span(m, first, last), LAMBDA sp :
        Checked(m, sp, end,
            FirstCode(sp, LAMBDA i : With(Node(m, sp[i]), LAMBDA e :
                IF PrevEnd(m, sp, i) # e.start_addr THEN EINVAL
                ELSE IF "W" \notin e.si_flags THEN EACCES
                ELSE IF "REG" \notin e.si_flags THEN EACCES
                ELSE IF "RESERVE" \in e.alloc_flags THEN EACCES
                ELSE 0))))

\* The loop of a do_X_loop: Do on each node from curr up to last, the next
\* node read before Do runs; stops at the first error.
RECURSIVE ema_do_commit_walk(_, _, _, _, _)
ema_do_commit_walk(m, curr, last, start, end) ==
    IF curr = last THEN Res(m, 0)
    ELSE With2(ema_next(m, curr), ema_do_commit(m, curr, start, end),
               LAMBDA next, r :
                   IF r.ret # 0 THEN r
                   ELSE ema_do_commit_walk(r.m, next, last, start, end))

ema_do_commit_loop(m, first, last, start, end) ==
    With(ema_can_commit(m, first, last, start, end), LAMBDA ret :
        IF ret # 0 THEN Res(m, ret)
        ELSE ema_do_commit_walk(m, first, last, start, end))

\* The first address in [from, real_end) at which Want holds of the page's
\* bit in the map of 'node', real_end if there is none.
RECURSIVE ScanBits(_, _, _, _, _)
ScanBits(m, node, from, real_end, want) ==
    IF ~(from < real_end) THEN from
    ELSE IF bit_array_test(Node(m, node).eaccept_map,
                           PagePos(Node(m, node), from), m.oob) = want
    THEN from
    ELSE ScanBits(m, node, from + SGX_PAGE_SIZE, real_end, want)

\* The block [block_start, block_end_) of committed pages trimmed.
ema_do_uncommit_block(m, node, block_start, block_end_, prot, type) ==
    With(sgx_mm_modify_ocall(m, block_start, block_end_ - block_start,
                             prot \cup type, prot \cup {"TRIM"}),
         LAMBDA o1 :
        IF o1.ret # 0 THEN Res(o1.m, EFAULT)
        ELSE With(eaccept_range_forward(o1.m, {"TRIM", "MODIFIED"}, block_start,
                                        block_end_),
                  LAMBDA ea :
            IF ea.ret # 0 THEN ea
            ELSE With3(Node(m, node).eaccept_map,
                       PagePos(Node(m, node), block_start),
                       (block_end_ - block_start) \div SGX_PAGE_SIZE,
                       LAMBDA map, pos, len :
                With(sgx_mm_modify_ocall(
                         [SetMap(ea.m, node, bit_array_reset_range(map, pos, len))
                             EXCEPT !.ub = @ \/ WriteOutside(map, pos, len)],
                         block_start, block_end_ - block_start,
                         prot \cup {"TRIM"}, prot \cup {"TRIM"}),
                     LAMBDA o2 :
                         IF o2.ret # 0 THEN Res(o2.m, EFAULT) ELSE Res(o2.m, 0)))))

RECURSIVE ema_do_uncommit_blocks(_, _, _, _, _, _)
ema_do_uncommit_blocks(m, node, real_start, real_end, prot, type) ==
    IF ~(real_start < real_end) THEN Res(m, 0)
    ELSE With(ScanBits(m, node, real_start, real_end, TRUE), LAMBDA block_start :
        IF block_start = real_end THEN Res(m, 0)
        ELSE With(ScanBits(m, node, block_start + SGX_PAGE_SIZE, real_end, FALSE),
                  LAMBDA block_end_ :
            With(ema_do_uncommit_block(m, node, block_start, block_end_, prot, type),
                 LAMBDA r :
                     IF r.ret # 0 THEN r
                     ELSE ema_do_uncommit_blocks(r.m, node, block_end_, real_end,
                                                 prot, type))))

ema_do_uncommit_real(m, node, real_start, real_end, prot) ==
    IF ~Running(m) THEN Res(m, EFAULT)
    ELSE IF "RESERVE" \in Node(m, node).alloc_flags THEN Res(m, 0)
    ELSE ema_do_uncommit_blocks(m, node, real_start, real_end, prot,
                                Node(m, node).si_flags \cap SGX_EMA_PAGE_TYPE_MASK)

\* the page loop of ema_modify_permissions that accepts every page, also
\* when the new permissions are R+W+X
RECURSIVE ema_modify_permissions_pages_accept(_, _, _, _, _)
ema_modify_permissions_pages_accept(m, page, real_end, prot, new_prot) ==
    IF ~(page < real_end) THEN Res(m, 0)
    ELSE With(IF (new_prot \cup prot) # prot
              THEN do_emodpe(m, new_prot \cup {"REG", "PR"}, page)
              ELSE m,
              LAMBDA m1 :
        With(do_eaccept(m1, new_prot \cup {"REG", "PR"}, page), LAMBDA r :
            IF r.ret # 0 THEN r
            ELSE ema_modify_permissions_pages_accept(r.m, page + SGX_PAGE_SIZE,
                                                     real_end, prot, new_prot)))

RECURSIVE ema_modify_permissions_pages(_, _, _, _, _)
ema_modify_permissions_pages(m, page, real_end, prot, new_prot) ==
    IF ~(page < real_end) THEN Res(m, 0)
    ELSE With(IF (new_prot \cup prot) # prot
              THEN do_emodpe(m, new_prot \cup {"REG", "PR"}, page)
              ELSE m,
              LAMBDA m1 :
        IF (new_prot \cap {"W", "X"}) # {"W", "X"}
        THEN With(do_eaccept(m1, new_prot \cup {"REG", "PR"}, page), LAMBDA r :
                 IF r.ret # 0 THEN r
                 ELSE ema_modify_permissions_pages(r.m, page + SGX_PAGE_SIZE,
                                                   real_end, prot, new_prot))
        ELSE ema_modify_permissions_pages(m1, page + SGX_PAGE_SIZE, real_end,
                                          prot, new_prot))

\* 'node' of 's' cut at 'end' when it reaches beyond it.
SplitUpper(s, end) ==
    IF end < ema_end(Node(s.m, s.node)) THEN ema_split(s.m, s.node, end, TRUE)
    ELSE [m |-> s.m, ret |-> 0, node |-> s.node]

\* 'node' cut at 'start' when it begins before it.
SplitLower(m, node, start) ==
    IF start > Node(m, node).start_addr THEN ema_split(m, node, start, FALSE)
    ELSE [m |-> m, ret |-> 0, node |-> node]

\* the tail of ema_modify_permissions that marks the whole node and does
\* not cut it
ema_modify_permissions_node_whole(m, node, real_start, real_end, type, new_prot) ==
    With(SetNode(m, node,
                 [Node(m, node) EXCEPT
                     !.si_flags = (@ \ SGX_EMA_PROT_MASK) \cup new_prot]),
         LAMBDA m4 :
        IF new_prot = SGX_EMA_PROT_NONE
        THEN With(sgx_mm_modify_ocall(
                      m4, real_start, real_end - real_start,
                      type \cup SGX_EMA_PROT_NONE, type \cup SGX_EMA_PROT_NONE),
                  LAMBDA o2 : Res(o2.m, IF o2.ret # 0 THEN EFAULT ELSE 0))
        ELSE Res(m4, 0))

\* The tail of ema_modify_permissions: the node cut to the range and marked.
ema_modify_permissions_node(m, node, real_start, real_end, type, new_prot) ==
    With(SplitLower(m, node, real_start), LAMBDA s1 :
        IF s1.ret # 0 THEN Res(s1.m, s1.ret)
        ELSE With(SplitUpper(s1, real_end), LAMBDA s2 :
            IF s2.ret # 0 THEN Res(s2.m, s2.ret)
            ELSE With(SetNode(s2.m, s2.node,
                          [Node(s2.m, s2.node) EXCEPT
                              !.si_flags = (@ \ SGX_EMA_PROT_MASK) \cup new_prot]),
                      LAMBDA m4 :
                IF new_prot = SGX_EMA_PROT_NONE
                THEN With(sgx_mm_modify_ocall(
                              m4, real_start, real_end - real_start,
                              type \cup SGX_EMA_PROT_NONE, type \cup SGX_EMA_PROT_NONE),
                          LAMBDA o2 : Res(o2.m, IF o2.ret # 0 THEN EFAULT ELSE 0))
                ELSE Res(m4, 0))))

\* ema_modify_permissions without the early return for equal permissions
ema_modify_permissions_noskip(m, node, start, end, new_prot) ==
    IF ~Running(m) THEN Res(m, EFAULT)
    ELSE With3(Node(m, node).si_flags \cap SGX_EMA_PROT_MASK,
               MAX(start, Node(m, node).start_addr),
               MIN(end, ema_end(Node(m, node))),
               LAMBDA prot, real_start, real_end :
        With(Node(m, node).si_flags \cap SGX_EMA_PAGE_TYPE_MASK, LAMBDA type :
            With(sgx_mm_modify_ocall(m, real_start, real_end - real_start,
                                     prot \cup type, new_prot \cup type),
                 LAMBDA o1 :
                IF o1.ret # 0 THEN Res(o1.m, EFAULT)
                ELSE With(ema_modify_permissions_pages(o1.m, real_start, real_end,
                                                       prot, new_prot),
                          LAMBDA pg :
                    IF pg.ret # 0 THEN pg
                    ELSE ema_modify_permissions_node(pg.m, node, real_start,
                                                     real_end, type, new_prot)))))

ema_modify_permissions(m, node, start, end, new_prot) ==
    IF ~Running(m) THEN Res(m, EFAULT)
    ELSE With3(Node(m, node).si_flags \cap SGX_EMA_PROT_MASK,
               MAX(start, Node(m, node).start_addr),
               MIN(end, ema_end(Node(m, node))),
               LAMBDA prot, real_start, real_end :
        IF prot = new_prot THEN Res(m, 0)
        ELSE With(Node(m, node).si_flags \cap SGX_EMA_PAGE_TYPE_MASK, LAMBDA type :
            With(sgx_mm_modify_ocall(m, real_start, real_end - real_start,
                                     prot \cup type, new_prot \cup type),
                 LAMBDA o1 :
                IF o1.ret # 0 THEN Res(o1.m, EFAULT)
                ELSE With(ema_modify_permissions_pages(o1.m, real_start, real_end,
                                                       prot, new_prot),
                          LAMBDA pg :
                    IF pg.ret # 0 THEN pg
                    ELSE ema_modify_permissions_node(pg.m, node, real_start,
                                                     real_end, type, new_prot)))))

\* PROT_NONE pages are made readable before they are trimmed.
MadeReadable(m, node, start, end) ==
    IF Node(m, node).si_flags \cap SGX_EMA_PROT_MASK = SGX_EMA_PROT_NONE
    THEN ema_modify_permissions(m, node, start, end, SGX_EMA_PROT_READ).m
    ELSE m

ema_do_uncommit(m, node, start, end) ==
    With(Node(m, node), LAMBDA e :
        ema_do_uncommit_real(MadeReadable(m, node, start, end), node,
                             MAX(start, e.start_addr), MIN(end, ema_end(e)),
                             e.si_flags \cap SGX_EMA_PROT_MASK))

\* ema_can_uncommit without the test for RESERVE nodes
ema_can_uncommit_reserve_ok(m, first, last, start, end) ==
    With(Span(m, first, last), LAMBDA sp :
        Checked(m, sp, end,
            FirstCode(sp, LAMBDA i : With(Node(m, sp[i]), LAMBDA e :
                IF PrevEnd(m, sp, i) # e.start_addr THEN EINVAL
                ELSE 0))))

ema_can_uncommit(m, first, last, start, end) ==
    With(Span(m, first, last), LAMBDA sp :
        Checked(m, sp, end,
            FirstCode(sp, LAMBDA i : With(Node(m, sp[i]), LAMBDA e :
                IF PrevEnd(m, sp, i) # e.start_addr THEN EINVAL
                ELSE IF "RESERVE" \in e.alloc_flags THEN EACCES
                ELSE 0))))

RECURSIVE ema_do_uncommit_walk(_, _, _, _, _)
ema_do_uncommit_walk(m, curr, last, start, end) ==
    IF curr = last THEN Res(m, 0)
    ELSE With2(ema_next(m, curr), ema_do_uncommit(m, curr, start, end),
               LAMBDA next, r :
                   IF r.ret # 0 \/ ~Running(r.m) THEN r
                   ELSE ema_do_uncommit_walk(r.m, next, last, start, end))

ema_do_uncommit_loop(m, first, last, start, end) ==
    With(ema_can_uncommit(m, first, last, start, end), LAMBDA ret :
        IF ret # 0 THEN Res(m, ret)
        ELSE ema_do_uncommit_walk(m, first, last, start, end))

\* split_and_destroy that cuts the node to the range and leaves it on the list
split_and_destroy_kept(m, node, real_start, real_end) ==
    With(SplitLower(m, node, real_start), LAMBDA s1 :
        IF s1.ret # 0 THEN Res(s1.m, s1.ret)
        ELSE With(SplitUpper(s1, real_end), LAMBDA s2 :
            IF s2.ret # 0 THEN Res(s2.m, s2.ret)
            ELSE Res(s2.m, 0)))

\* split_and_destroy
split_and_destroy(m, node, real_start, real_end) ==
    With(SplitLower(m, node, real_start), LAMBDA s1 :
        IF s1.ret # 0 THEN Res(s1.m, s1.ret)
        ELSE With(SplitUpper(s1, real_end), LAMBDA s2 :
            IF s2.ret # 0 THEN Res(s2.m, s2.ret)
            ELSE Res(ema_destroy(s2.m, s2.node), 0)))

ema_do_dealloc(m, node, start, end) ==
    With(Node(m, node), LAMBDA e :
        With(IF "RESERVE" \in e.alloc_flags THEN Res(m, 0)
             ELSE ema_do_uncommit_real(MadeReadable(m, node, start, end), node,
                                       MAX(start, e.start_addr),
                                       MIN(end, ema_end(e)), SGX_EMA_PROT_NONE),
             LAMBDA un :
                IF un.ret # 0 \/ ~Running(un.m) THEN un
                ELSE split_and_destroy(un.m, node, MAX(start, e.start_addr),
                                       MIN(end, ema_end(e)))))

RECURSIVE ema_do_dealloc_loop(_, _, _, _, _)
ema_do_dealloc_loop(m, curr, last, start, end) ==
    IF curr = last THEN Res(m, 0)
    ELSE With2(ema_next(m, curr), ema_do_dealloc(m, curr, start, end),
               LAMBDA next, r :
                   IF r.ret # 0 \/ ~Running(r.m) THEN r
                   ELSE ema_do_dealloc_loop(r.m, next, last, start, end))

\* the tail of ema_change_to_tcs that cuts the page out and leaves its
\* si_flags as they were
ema_change_to_tcs_page_unmarked(m, node, addr, prot, type) ==
    With(sgx_mm_modify_ocall(m, addr, SGX_PAGE_SIZE, prot \cup type,
                             prot \cup {"TCS"}),
         LAMBDA o1 :
        IF o1.ret # 0 THEN Res(o1.m, EFAULT)
        ELSE With(do_eaccept(o1.m, {"TCS", "MODIFIED"}, addr), LAMBDA ea :
            IF ea.ret # 0 THEN Res(Halt(ea.m, "abort"), ea.ret)
            ELSE With(ema_split_ex(ea.m, node, addr, addr + SGX_PAGE_SIZE),
                      LAMBDA sx : Res(sx.m, sx.ret))))

\* The tail of ema_change_to_tcs: the page converted, cut out and marked.
ema_change_to_tcs_page(m, node, addr, prot, type) ==
    With(sgx_mm_modify_ocall(m, addr, SGX_PAGE_SIZE, prot \cup type,
                             prot \cup {"TCS"}),
         LAMBDA o1 :
        IF o1.ret # 0 THEN Res(o1.m, EFAULT)
        ELSE With(do_eaccept(o1.m, {"TCS", "MODIFIED"}, addr), LAMBDA ea :
            IF ea.ret # 0 THEN Res(Halt(ea.m, "abort"), ea.ret)
            ELSE With(ema_split_ex(ea.m, node, addr, addr + SGX_PAGE_SIZE),
                      LAMBDA sx :
                IF sx.ret # 0 THEN Res(sx.m, sx.ret)
                ELSE Res(SetNode(sx.m, sx.node,
                             [Node(sx.m, sx.node) EXCEPT !.si_flags =
                                 ((@ \ SGX_EMA_PAGE_TYPE_MASK) \ SGX_EMA_PROT_MASK)
                                     \cup {"TCS"} \cup SGX_EMA_PROT_NONE]), 0))))

\* ema_change_to_tcs without the test of the permissions
ema_change_to_tcs_anyprot(m, node, addr) ==
    With2(Node(m, node).si_flags \cap SGX_EMA_PROT_MASK,
          Node(m, node).si_flags \cap SGX_EMA_PAGE_TYPE_MASK,
          LAMBDA prot, type :
              IF ~ema_page_committed(m, node, addr) THEN Res(m, EACCES)
              ELSE IF type = {"TCS"} THEN Res(m, 0)
              ELSE IF type # {"REG"} THEN Res(m, EACCES)
              ELSE ema_change_to_tcs_page(m, node, addr, prot, type))

ema_change_to_tcs(m, node, addr) ==
    With2(Node(m, node).si_flags \cap SGX_EMA_PROT_MASK,
          Node(m, node).si_flags \cap SGX_EMA_PAGE_TYPE_MASK,
          LAMBDA prot, type :
              IF ~ema_page_committed(m, node, addr) THEN Res(m, EACCES)
              ELSE IF type = {"TCS"} THEN Res(m, 0)
              ELSE IF prot # SGX_EMA_PROT_READ_WRITE THEN Res(m, EACCES)
              ELSE IF type # {"REG"} THEN Res(m, EACCES)
              ELSE ema_change_to_tcs_page(m, node, addr, prot, type))

\* ema_can_modify_permissions without the test of the commit bits
ema_can_modify_permissions_nobits(m, first, last, start, end) ==
    With(Span(m, first, last), LAMBDA sp :
        Checked(m, sp, end,
            FirstCode(sp, LAMBDA i : With(Node(m, sp[i]), LAMBDA e :
                IF PrevEnd(m, sp, i) # e.start_addr THEN EINVAL
                ELSE IF "REG" \notin e.si_flags THEN EACCES
                ELSE IF "RESERVE" \in e.alloc_flags THEN EACCES
                ELSE 0))))

ema_can_modify_permissions(m, first, last, start, end) ==
    With(Span(m, first, last), LAMBDA sp :
        Checked(m, sp, end,
            FirstCode(sp, LAMBDA i : With(Node(m, sp[i]), LAMBDA e :
                IF PrevEnd(m, sp, i) # e.start_addr THEN EINVAL
                ELSE IF "REG" \notin e.si_flags THEN EACCES
                ELSE IF "RESERVE" \in e.alloc_flags THEN EACCES
                ELSE IF \/ e.eaccept_map.ptr = NULL
                        \/ ~bit_array_test_range(
                                e.eaccept_map, PagePos(e, MAX(start, e.start_addr)),
                                PagePos(e, MIN(end, ema_end(e)))
                                    - PagePos(e, MAX(start, e.start_addr)),
                                m.oob)
                THEN EINVAL
                ELSE 0))))

RECURSIVE ema_modify_permissions_loop_nocheck(_, _, _, _, _, _)
ema_modify_permissions_loop_nocheck(m, curr, last, start, end, prot) ==
    IF curr = last THEN Res(m, 0)
    ELSE With2(ema_next(m, curr), ema_modify_permissions(m, curr, start, end, prot),
               LAMBDA next, r :
                   IF r.ret # 0 \/ ~Running(r.m) THEN r
                   ELSE ema_modify_permissions_loop_nocheck(r.m, next, last, start,
                                                            end, prot))

\* ema_modify_permissions_loop that skips the precheck
ema_modify_permissions_loop_unchecked(m, first, last, start, end, prot) ==
    ema_modify_permissions_loop_nocheck(m, first, last, start, end, prot)

ema_modify_permissions_loop(m, first, last, start, end, prot) ==
    With(ema_can_modify_permissions(m, first, last, start, end), LAMBDA ret :
        IF ret # 0 THEN Res(m, ret)
        ELSE ema_modify_permissions_loop_nocheck(m, first, last, start, end, prot))

ema_can_commit_data(m, first, last, start, end) ==
    With(Span(m, first, last), LAMBDA sp :
        Checked(m, sp, end,
            FirstCode(sp, LAMBDA i : With(Node(m, sp[i]), LAMBDA e :
                IF PrevEnd(m, sp, i) # e.start_addr THEN EINVAL
                ELSE IF "W" \notin e.si_flags THEN EACCES
                ELSE IF "REG" \notin e.si_flags THEN EACCES
                ELSE IF "RESERVE" \in e.alloc_flags THEN EACCES
                ELSE IF "COMMIT_ON_DEMAND" \notin e.alloc_flags THEN EINVAL
                ELSE IF /\ e.eaccept_map.ptr # NULL
                        /\ bit_array_test_range_any(
                               e.eaccept_map, PagePos(e, MAX(start, e.start_addr)),
                               PagePos(e, MIN(end, ema_end(e)))
                                   - PagePos(e, MAX(start, e.start_addr)),
                               m.oob)
                THEN EACCES
                ELSE 0))))

RECURSIVE ema_do_commit_data_pages(_, _, _, _, _)
ema_do_commit_data_pages(m, si, addr, end, src) ==
    IF ~(addr < end) THEN Res(m, 0)
    ELSE With(do_eacceptcopy(m, si, addr, src), LAMBDA r :
        IF r.ret # 0 THEN Res(r.m, EFAULT)
        ELSE ema_do_commit_data_pages(r.m, si, addr + SGX_PAGE_SIZE, end,
                                      src + SGX_PAGE_SIZE))

ema_do_commit_data(m, node, start, end, data, prot) ==
    With(ema_do_commit_data_pages(m, prot \cup {"REG"}, start, end, data),
         LAMBDA r : IF r.ret # 0 THEN r ELSE ema_set_eaccept(r.m, node, start, end))

RECURSIVE ema_do_commit_data_walk(_, _, _, _, _, _, _)
ema_do_commit_data_walk(m, curr, last, start, end, data, prot) ==
    IF curr = last THEN Res(m, 0)
    ELSE With2(MAX(start, Node(m, curr).start_addr),
               MIN(end, ema_end(Node(m, curr))),
               LAMBDA real_start, real_end :
        With(ema_do_commit_data(m, curr, real_start, real_end,
                                data + real_start - start, prot),
             LAMBDA r :
                 IF r.ret # 0 \/ ~Running(r.m) THEN r
                 ELSE ema_do_commit_data_walk(r.m, ema_next(r.m, curr), last, start,
                                              end, data, prot)))

ema_do_commit_data_loop(m, first, last, start, end, data, prot) ==
    With(ema_can_commit_data(m, first, last, start, end), LAMBDA ret :
        IF ret # 0 THEN Res(m, ret)
        ELSE With(ema_do_commit_data_walk(m, first, last, start, end, data, prot),
                  LAMBDA w :
            IF w.ret # 0 \/ ~Running(w.m) THEN w
            ELSE ema_modify_permissions_loop_nocheck(w.m, first, last, start, end,
                                                     prot)))

RECURSIVE ema_destroy_range(_, _, _)
ema_destroy_range(m, curr, last) ==
    IF curr = last \/ ~Running(m) THEN m
    ELSE ema_destroy_range(ema_destroy(m, curr), ema_next(m, curr), last)

\* The tail of ema_realloc_from_reserve_range: the nodes from the one of s1
\* to the last node 'li' of the range, cut at 'end', give way to a new node.
ema_realloc_replace(s1, li, start, end, alloc_flags, si_flags, handler, private_data) ==
    With(IF end < ema_end(Node(s1.m, li))
         THEN ema_split(s1.m, li, end, FALSE)
         ELSE [m |-> s1.m, ret |-> 0, node |-> ema_next(s1.m, li)],
         LAMBDA s2 :
        IF s2.ret # 0 THEN Res(s2.m, NULL)
        ELSE With(ema_destroy_range(s2.m, s1.node, s2.node), LAMBDA m3 :
            IF ~Running(m3) THEN Res(m3, NULL)
            ELSE ema_new(m3, start, end - start, alloc_flags, si_flags, handler,
                         private_data, s2.node)))

\* ema_realloc_from_reserve_range that also gives nodes away that are not
\* RESERVE
ema_realloc_from_any_range(m, first, last, start, end, alloc_flags, si_flags, handler, private_data) ==
    With(Span(m, first, last), LAMBDA sp :
        IF FirstBad(sp, LAMBDA i :
               \/ ~can_erealloc(m.hp, sp[i])
               \/ PrevEnd(m, sp, i) # Node(m, sp[i]).start_addr) # 0
        THEN Res(m, NULL)
        ELSE With2(ema_prev(m, last), start > Node(m, first).start_addr,
                   LAMBDA li0, cut :
            With(IF cut THEN ema_split(m, first, start, FALSE)
                 ELSE [m |-> m, ret |-> 0, node |-> first],
                 LAMBDA s1 :
                IF s1.ret # 0 THEN Res(s1.m, NULL)
                ELSE ema_realloc_replace(
                         s1, IF cut /\ first = li0 THEN s1.node ELSE li0,
                         start, end, alloc_flags, si_flags, handler, private_data))))

ema_realloc_from_reserve_range(m, first, last, start, end, alloc_flags, si_flags, handler, private_data) ==
    With(Span(m, first, last), LAMBDA sp :
        IF FirstBad(sp, LAMBDA i :
               \/ ~can_erealloc(m.hp, sp[i])
               \/ PrevEnd(m, sp, i) # Node(m, sp[i]).start_addr
               \/ "RESERVE" \notin Node(m, sp[i]).alloc_flags) # 0
        THEN Res(m, NULL)
        ELSE With2(ema_prev(m, last), start > Node(m, first).start_addr,
                   LAMBDA li0, cut :
            With(IF cut THEN ema_split(m, first, start, FALSE)
                 ELSE [m |-> m, ret |-> 0, node |-> first],
                 LAMBDA s1 :
                IF s1.ret # 0 THEN Res(s1.m, NULL)
                ELSE ema_realloc_replace(
                         s1, IF cut /\ first = li0 THEN s1.node ELSE li0,
                         start, end, alloc_flags, si_flags, handler, private_data))))

\* the tail of ema_do_alloc that makes the map all zeros for every region
ema_do_alloc_pages_zeros(m, node, e) ==
    With(sgx_mm_alloc_ocall(m, e.start_addr, e.size,
                            e.si_flags \cap SGX_EMA_PAGE_TYPE_MASK, e.alloc_flags),
         LAMBDA o :
        IF o.ret # 0 THEN Res(o.m, EFAULT)
        ELSE IF "COMMIT_NOW" \in e.alloc_flags
        THEN With(do_commit(o.m, e.start_addr, e.size, e.si_flags,
                            "GROWSDOWN" \notin e.alloc_flags),
                  LAMBDA c : IF c.ret # 0 THEN c
                             ELSE ema_clear_eaccept_full(c.m, node))
        ELSE ema_clear_eaccept_full(o.m, node))

\* The tail of ema_do_alloc: the out-call, the commit and the map.
ema_do_alloc_pages(m, node, e) ==
    With(sgx_mm_alloc_ocall(m, e.start_addr, e.size,
                            e.si_flags \cap SGX_EMA_PAGE_TYPE_MASK, e.alloc_flags),
         LAMBDA o :
        IF o.ret # 0 THEN Res(o.m, EFAULT)
        ELSE IF "COMMIT_NOW" \in e.alloc_flags
        THEN With(do_commit(o.m, e.start_addr, e.size, e.si_flags,
                            "GROWSDOWN" \notin e.alloc_flags),
                  LAMBDA c : IF c.ret # 0 THEN c
                             ELSE ema_set_eaccept_full(c.m, node))
        ELSE ema_clear_eaccept_full(o.m, node))

\* ema_do_alloc without the early return for RESERVE nodes
ema_do_alloc_reserve_too(m, node) == ema_do_alloc_pages(m, node, Node(m, node))

ema_do_alloc(m, node) ==
    IF "RESERVE" \in Node(m, node).alloc_flags THEN Res(m, 0)
    ELSE ema_do_alloc_pages(m, node, Node(m, node))

(***************************************************************************)
(* The public surface: argument validation, choice of the list, and the    *)
(* call of the driver.                                                     *)
(***************************************************************************)
Aligned(x) == x % SGX_PAGE_SIZE = 0

\* The list a range belongs to, NULL when it lies in neither window.
RootOf(m, addr, size) ==
    IF ~sgx_mm_is_within_enclave(addr, size) THEN NULL
    ELSE IF is_within_user_range(m, addr, size) THEN user_ema_guard
    ELSE IF is_within_rts_range(m, addr, size) THEN rts_ema_guard
    ELSE NULL

\* The range lies in the window of the list 'root'.
InWindow(m, root, addr, size) ==
    /\ sgx_mm_is_within_enclave(addr, size)
    /\ IF root = rts_ema_guard THEN is_within_rts_range(m, addr, size)
       ELSE is_within_user_range(m, addr, size)

\* Where the region of an alloc goes: an error 'ret', or the node 'node'
\* that holds it, or the address 'addr' of a new node before 'next_ema', or,
\* with 'any', a free region still to be found.
PlaceFail(m, ret) ==
    [m |-> m, ret |-> ret, node |-> NULL, addr |-> NULL, next_ema |-> NULL,
     any |-> FALSE]

PlaceNode(m, node, addr) ==
    [m |-> m, ret |-> 0, node |-> node, addr |-> addr, next_ema |-> NULL,
     any |-> FALSE]

PlaceAt(m, addr, next_ema) ==
    [m |-> m, ret |-> 0, node |-> NULL, addr |-> addr, next_ema |-> next_ema,
     any |-> FALSE]

PlaceAnywhere(m) ==
    [m |-> m, ret |-> 0, node |-> NULL, addr |-> NULL, next_ema |-> NULL,
     any |-> TRUE]

\* mm_alloc_internal at a given address: the nodes of the range are
\* reserved and give way, or the range is free.
mm_alloc_at(m, addr, size, alloc_flags, si_flags, handler, private_data, root) ==
    With(search_ema_range(m, root, addr, addr + size), LAMBDA sr :
        IF sr.ret = 0
        THEN With(ema_realloc_from_reserve_range(
                      m, sr.ema_begin, sr.ema_end, addr, addr + size, alloc_flags,
                      si_flags, handler, private_data),
                  LAMBDA re :
                      IF ~Running(re.m) THEN PlaceFail(re.m, ENOMEM)
                      ELSE IF re.ret # NULL THEN PlaceNode(re.m, re.ret, addr)
                      ELSE IF "FIXED" \in alloc_flags THEN PlaceFail(re.m, EEXIST)
                      ELSE PlaceAnywhere(re.m))
        ELSE IF find_free_region_at(m, root, addr, size).found
        THEN PlaceAt(m, addr, find_free_region_at(m, root, addr, size).next_ema)
        ELSE IF "FIXED" \in alloc_flags THEN PlaceFail(m, EINVAL)
        ELSE PlaceAnywhere(m))

\* mm_alloc_internal up to the node: the arguments checked, the region
\* found and its node made.
mm_alloc_node(m, addr, size, alloc_flags, si_flags, handler, private_data, root) ==
    With(IF \/ size = 0 \/ ~Aligned(size) \/ ~Aligned(addr)
            \/ Cardinality(alloc_flags \cap
                               {"RESERVE", "COMMIT_NOW", "COMMIT_ON_DEMAND"}) # 1
         THEN PlaceFail(m, EINVAL)
         ELSE IF addr = NULL THEN PlaceAnywhere(m)
         ELSE IF ~InWindow(m, root, addr, size) THEN PlaceFail(m, EINVAL)
         ELSE mm_alloc_at(m, addr, size, alloc_flags, si_flags, handler,
                          private_data, root),
         LAMBDA p0 :
        With(IF ~p0.any THEN p0
             ELSE With(find_free_region(p0.m, root, size, SGX_PAGE_SIZE), LAMBDA ff :
                      IF ~ff.found THEN PlaceFail(p0.m, ENOMEM)
                      ELSE PlaceAt(p0.m, ff.addr, ff.next_ema)),
             LAMBDA p :
            IF p.ret # 0 \/ p.node # NULL THEN p
            ELSE With(ema_new(p.m, p.addr, size, alloc_flags, si_flags, handler,
                              private_data, p.next_ema),
                      LAMBDA nw :
                          IF nw.ret = NULL THEN PlaceFail(nw.m, ENOMEM)
                          ELSE PlaceNode(nw.m, nw.ret, p.addr))))

mm_alloc_internal(m, addr, size, flags, handler, private_data, root) ==
    With(mm_alloc_node(m, addr, size, flags \ {"SYSTEM"},
                       IF "RESERVE" \in flags THEN SGX_EMA_PROT_NONE
                       ELSE SGX_EMA_PROT_READ_WRITE \cup {"REG"},
                       handler, private_data, root),
         LAMBDA p :
        IF p.ret # 0 THEN [m |-> p.m, ret |-> p.ret, addr |-> NULL]
        ELSE With(ema_do_alloc(p.m, p.node), LAMBDA al :
            IF ~Running(al.m) THEN [m |-> al.m, ret |-> al.ret, addr |-> NULL]
            ELSE IF al.ret # 0
            THEN [m |-> ema_destroy(al.m, p.node), ret |-> al.ret, addr |-> NULL]
            ELSE [m |-> al.m, ret |-> 0, addr |-> p.addr]))

sgx_mm_alloc(m, addr, size, flags, handler, private_data) ==
    mm_alloc_internal(m, addr, size, flags, handler, private_data,
                      IF "SYSTEM" \in flags THEN rts_ema_guard ELSE user_ema_guard)

\* The common entry of the range operations: validate, choose the list, find
\* the nodes of the range, run Loop(first, last) on them.
RangeOp(m, addr, size, Loop(_, _)) ==
    IF size = 0 \/ ~Aligned(size) \/ ~Aligned(addr) \/ RootOf(m, addr, size) = NULL
    THEN Res(m, EINVAL)
    ELSE With(search_ema_range(m, RootOf(m, addr, size), addr, addr + size),
              LAMBDA sr : IF sr.ret # 0 THEN Res(m, EINVAL)
                          ELSE Loop(sr.ema_begin, sr.ema_end))

sgx_mm_commit(m, addr, size) ==
    RangeOp(m, addr, size,
            LAMBDA f, l : ema_do_commit_loop(m, f, l, addr, addr + size))

sgx_mm_uncommit(m, addr, size) ==
    RangeOp(m, addr, size,
            LAMBDA f, l : ema_do_uncommit_loop(m, f, l, addr, addr + size))

sgx_mm_dealloc(m, addr, size) ==
    RangeOp(m, addr, size,
            LAMBDA f, l : ema_do_dealloc_loop(m, f, l, addr, addr + size))

sgx_mm_commit_data(m, addr, size, data, prot) ==
    RangeOp(m, addr, size,
            LAMBDA f, l : ema_do_commit_data_loop(m, f, l, addr, addr + size,
                                                  data, prot))

sgx_mm_modify_permissions(m, addr, size, prot) ==
    RangeOp(m, addr, size,
            LAMBDA f, l : ema_modify_permissions_loop(m, f, l, addr, addr + size,
                                                      prot))

sgx_mm_modify_type(m, addr, size, type) ==
    IF type # {"TCS"} \/ size # SGX_PAGE_SIZE THEN Res(m, EINVAL)
    ELSE RangeOp(m, addr, size, LAMBDA f, l : ema_change_to_tcs(m, f, addr))

(***************************************************************************)
(* emalloc.c: growing the reserve, and emalloc itself.                     *)
(***************************************************************************)
\* add_reserve that returns the error of its second sgx_mm_alloc at once.
add_reserve_return_early(m, rsize) ==
    LET \* the end of add_reserve: the fence lowered
        Fenced(mm, ret) == Res([mm EXCEPT !.hp.adding_reserve = FALSE], ret)
    IN  IF m.hp.adding_reserve THEN Res(m, 0)
        ELSE With(MAX(m.hp.reserve_size_increment, rsize), LAMBDA incr :
            With(Run([m EXCEPT !.hp.reserve_size_increment = incr,
                               !.hp.adding_reserve = TRUE],
                     PublicCall("alloc", NULL, incr + 2 * guard_size, {"RESERVE"})),
                 LAMBDA a1 :
                IF a1.ret # 0 THEN Fenced(a1.m, a1.ret)
                ELSE With(Run(a1.m, PublicCall("alloc", a1.addr + guard_size, incr,
                                               {"COMMIT_ON_DEMAND", "FIXED"})),
                          LAMBDA a2 :
                    IF a2.ret # 0 THEN Res(a2.m, a2.ret)
                    ELSE With(Run(a2.m, PublicCall("commit", a2.addr, rsize, {})),
                              LAMBDA c :
                        IF ~Running(c.m) THEN Res(c.m, EFAULT)
                        ELSE Fenced([c.m EXCEPT
                                        !.hp = [new_reserve(@, a2.addr, incr) EXCEPT
                                                   !.reserve_size_increment =
                                                       MIN(2 * incr, max_emalloc_size)]],
                                    0)))))

add_reserve(m, rsize) ==
    LET \* the end of add_reserve: the fence lowered
        Fenced(mm, ret) == Res([mm EXCEPT !.hp.adding_reserve = FALSE], ret)
    IN  IF m.hp.adding_reserve THEN Res(m, 0)
        ELSE With(MAX(m.hp.reserve_size_increment, rsize), LAMBDA incr :
            With(Run([m EXCEPT !.hp.reserve_size_increment = incr,
                               !.hp.adding_reserve = TRUE],
                     PublicCall("alloc", NULL, incr + 2 * guard_size, {"RESERVE"})),
                 LAMBDA a1 :
                IF a1.ret # 0 THEN Fenced(a1.m, a1.ret)
                ELSE With(Run(a1.m, PublicCall("alloc", a1.addr + guard_size, incr,
                                               {"COMMIT_ON_DEMAND", "FIXED"})),
                          LAMBDA a2 :
                    IF a2.ret # 0 THEN Fenced(a2.m, a2.ret)
                    ELSE With(Run(a2.m, PublicCall("commit", a2.addr, rsize, {})),
                              LAMBDA c :
                        IF ~Running(c.m) THEN Res(c.m, EFAULT)
                        ELSE Fenced([c.m EXCEPT
                                        !.hp = [new_reserve(@, a2.addr, incr) EXCEPT
                                                   !.reserve_size_increment =
                                                       MIN(2 * incr, max_emalloc_size)]],
                                    0)))))

emalloc_init_reserve(m, init_size) ==
    With(add_reserve(m, init_size), LAMBDA r :
        IF r.ret # 0 THEN Res(r.m, ENOMEM)
        ELSE Res([r.m EXCEPT !.hp.reserve_size_increment = initial_reserve_size], 0))

\* The body of emalloc.
emalloc_body(m, size) ==
    LET bsize == MAX(ROUND_TO(size + header_size, exact_match_increment),
                     min_block_size)
        \* the block x.b of the heap x.hp marked allocated and handed out
        Take(mm, x) ==
            Res([mm EXCEPT !.hp = [x.hp EXCEPT !.hdr = Put(@, x.b, bsize + 1)]],
                block_to_payload(x.b))
    IN  IF ~Running(m) THEN Res(m, NULL)
        ELSE IF m.hp.adding_reserve
        THEN With(alloc_from_meta(m.hp, bsize), LAMBDA meta :
                 IF meta.b = NULL THEN Res(m, NULL)
                 ELSE Res([m EXCEPT !.hp = meta.hp], block_to_payload(meta.b)))
        ELSE With(get_free_block(m.hp, bsize), LAMBDA fb :
            IF fb.b # NULL THEN Take(m, fb)
            ELSE With(alloc_from_reserve(m.hp, bsize), LAMBDA r1 :
                IF r1.b # NULL THEN Take(m, r1)
                ELSE With(add_reserve(m, ROUND_TO(bsize + sizeof_mm_reserve_t,
                                                  initial_reserve_size)),
                          LAMBDA ar :
                    IF ar.ret # 0 \/ ~Running(ar.m) THEN Res(ar.m, NULL)
                    ELSE With(alloc_from_reserve(ar.m.hp, bsize), LAMBDA r2 :
                        IF r2.b = NULL THEN Res(ar.m, NULL)
                        ELSE Take(ar.m, r2)))))

(***************************************************************************)
(* The global recursive mutex every public operation holds from entry to   *)
(* return.  'depth' counts the acquisitions of the thread that owns it and *)
(* 'deep' is the deepest nesting the running call reached.  A thread that  *)
(* owns the mutex acquires it again at once.                               *)
(***************************************************************************)
sgx_mm_mutex_lock_once(m) ==
    IF m.lock.depth > 0 THEN Halt(m, "deadlock")
    ELSE [m EXCEPT !.lock = [depth |-> 1, deep |-> MAX(@.deep, 1)]]

sgx_mm_mutex_lock(m) ==
    [m EXCEPT !.lock = [depth |-> @.depth + 1, deep |-> MAX(@.deep, @.depth + 1)]]

sgx_mm_mutex_unlock(r) == [r EXCEPT !.m.lock.depth = @ - 1]

\* The body of a public operation, run with the mutex held.
Body(m, req) ==
    CASE req.op = "alloc" ->
             sgx_mm_alloc(m, req.addr, req.size, req.arg, NULL, NULL)
      [] req.op = "commit" -> sgx_mm_commit(m, req.addr, req.size)
      [] req.op = "uncommit" -> sgx_mm_uncommit(m, req.addr, req.size)
      [] req.op = "dealloc" -> sgx_mm_dealloc(m, req.addr, req.size)
      [] req.op = "commit_data" ->
             sgx_mm_commit_data(m, req.addr, req.size, DataSrc, req.arg)
      [] req.op = "modify_permissions" ->
             sgx_mm_modify_permissions(m, req.addr, req.size, req.arg)
      [] req.op = "modify_type" ->
             sgx_mm_modify_type(m, req.addr, req.size, req.arg)

\* A public operation locks on entry and unlocks on every return path; a
\* thread that waits for itself never returns.  "held": the body of the
\* operation 'req.call', for a caller whose entry is a step of its own.
Run(m, req) ==
    CASE req.op = "emalloc" -> emalloc_body(m, req.size)
      [] req.op = "ema_split" ->
             ema_split_body(m, req.ema, req.addr, req.new_lower)
      [] req.op = "init" -> emalloc_init_reserve(m, initial_reserve_size)
      [] req.op = "held" -> Body(m, req.call)
      [] req.op = "bit_array_new" -> bit_array_new(m, req.size)
      [] req.op = "bit_array_split" -> bit_array_split(m, req.ba, req.pos)
      [] req.op = "efree" -> Res(efree(m, req.addr), 0)
      [] OTHER ->
             With(sgx_mm_mutex_lock(m), LAMBDA ml :
                 IF ml.halt = "deadlock"
                 THEN [m |-> ml, ret |-> EFAULT, addr |-> NULL]
                 ELSE sgx_mm_mutex_unlock(Body(ml, req)))

(***************************************************************************)
(* The state machine.  The state between two public calls: the two lists,  *)
(* the heap, the accepted pages, whether the enclave still runs, and a     *)
(* record of the last public call: its arguments, its return value and the *)
(* out-calls and instructions it issued.                                   *)
(***************************************************************************)
VARIABLES rts, user, hp, hw, halt, mm_user_end, call, ncalls, lock, pc

vars == <<rts, user, hp, hw, halt, mm_user_end, call, ncalls, lock, pc>>

\* The threads that enter the EMM; 'lock.owner' is 0 while the mutex is free.
Threads == {1, 2}

EmptyHeap ==
    [meta_used |-> 0, reserve_list |-> <<>>, exact_block_list |-> <<>>,
     large_block_list |-> <<>>, hdr |-> <<>>, adding_reserve |-> FALSE,
     reserve_size_increment |-> initial_reserve_size]

\* The enclave as loaded, before init.
Loaded(user_end) ==
    [rts |-> <<>>, user |-> <<>>, hp |-> EmptyHeap, hw |-> {},
     mm_user_end |-> user_end, trace |-> <<>>, fail |-> {}, n |-> 0, oob |-> 0,
     ub |-> FALSE, halt |-> "run", lock |-> [depth |-> 0, deep |-> 0]]

\* init(user_base, user_end): records the window and bootstraps the heap.
sgx_mm_init(user_end) ==
    Run(Loaded(user_end),
        PublicCall("init", mm_user_base, user_end - mm_user_base, {}))

\* The machine at the start of a public call with the given oracle.
Machine(fail, oob) ==
    [rts |-> rts, user |-> user, hp |-> hp, hw |-> hw, mm_user_end |-> mm_user_end,
     trace |-> <<>>, fail |-> fail, n |-> 0, oob |-> oob, ub |-> FALSE,
     halt |-> halt, lock |-> [depth |-> lock.depth, deep |-> lock.depth]]

\* What a call leaves of the machine between calls.
Kept(m) == <<m.rts, m.user, m.hp, m.hw, m.halt>>

\* 'out': the address an alloc returns.  'changed': the call left the
\* machine in another state than it found it.
Call(op, addr, size, arg, r, changed) ==
    [op |-> op, addr |-> addr, size |-> size, arg |-> arg, ret |-> r.ret,
     out |-> IF op = "alloc" THEN r.addr ELSE NULL,
     trace |-> r.m.trace, ub |-> r.m.ub, changed |-> changed]

Update(op, addr, size, arg, r) ==
    /\ rts' = r.m.rts
    /\ user' = r.m.user
    /\ hp' = r.m.hp
    /\ hw' = r.m.hw
    /\ halt' = r.m.halt
    /\ call' = Call(op, addr, size, arg, r, Kept(r.m) # <<rts, user, hp, hw, halt>>)
    /\ ncalls' = ncalls + 1
    /\ UNCHANGED mm_user_end

\* A public call as one step: the mutex is free before and after it.
Step(op, addr, size, arg, r) ==
    /\ Update(op, addr, size, arg, r)
    /\ UNCHANGED <<lock, pc>>

\* A public call is possible while the enclave runs.  A call that changed
\* nothing leaves the machine as the call before it left it, and what can
\* follow it is explored from there: only the calls after a call that
\* changed the machine are followed, MaxCalls of them.
Ready == halt = "run" /\ call.changed /\ ncalls < MaxCalls

\* The inputs of the public calls.  The user window ends right after the
\* UserPages pages the calls work on, or leaves room behind them for one
\* more reserve of the heap.
UserEnds == {UserWindowEnd, EnclaveEnd}
UserAddrs == {UserArea + i * SGX_PAGE_SIZE : i \in 0..(UserPages - 1)}
RtsAddrs == {EnclaveBase + i * SGX_PAGE_SIZE : i \in 0..(RtsPages - 1)}
Addrs == UserAddrs \cup RtsAddrs
Sizes == {k * SGX_PAGE_SIZE : k \in 1..MaxAllocPages}
Ranges ==
    {<<a, k * SGX_PAGE_SIZE>> : a \in UserAddrs, k \in 1..MaxRangePages} \cup
    {<<a, SGX_PAGE_SIZE>> : a \in RtsAddrs}
FailPlans == {{}} \cup {{k} : k \in 1..MaxHwFail}
OobBytes == {0, 255}
Kinds == {{"RESERVE"}, {"COMMIT_NOW"}, {"COMMIT_ON_DEMAND"}}
Prots == {{}, {"R"}, {"R", "W"}}

\* The public call op(addr, size, arg) made with the given oracle.
Public(op, addr, size, arg, fail, oob) ==
    Step(op, addr, size, arg, Run(Machine(fail, oob), PublicCall(op, addr, size, arg)))

Init ==
    \E user_end \in UserEnds :
        LET Booted(r) ==
                /\ rts = r.m.rts
                /\ user = r.m.user
                /\ hp = r.m.hp
                /\ hw = r.m.hw
                /\ halt = r.m.halt
                /\ mm_user_end = user_end
                /\ call = Call("init", mm_user_base, user_end - mm_user_base, {},
                               r, TRUE)
                /\ ncalls = 0
                /\ lock = [owner |-> 0, depth |-> 0, deep |-> 0]
                /\ pc = [t \in Threads |-> "out"]
        IN  Booted(sgx_mm_init(user_end))

\* alloc at any address, in the user window or for the runtime
AllocAny ==
    /\ Ready
    /\ \E size \in Sizes, kind \in Kinds, sys \in {{}, {"SYSTEM"}},
          fail \in FailPlans :
          Public("alloc", NULL, size, kind \cup sys, fail, 0)

\* alloc at a fixed address
AllocFixed ==
    /\ Ready
    /\ \E addr \in Addrs, size \in Sizes, kind \in Kinds, fail \in FailPlans :
          Public("alloc", addr, size,
                 kind \cup {"FIXED"} \cup
                     (IF addr \in RtsAddrs THEN {"SYSTEM"} ELSE {}),
                 fail, 0)

Commit ==
    /\ Ready
    /\ \E rg \in Ranges, fail \in FailPlans :
          Public("commit", rg[1], rg[2], {}, fail, 0)

Uncommit ==
    /\ Ready
    /\ \E rg \in Ranges, fail \in FailPlans, oob \in OobBytes :
          Public("uncommit", rg[1], rg[2], {}, fail, oob)

Dealloc ==
    /\ Ready
    /\ \E rg \in Ranges, fail \in FailPlans, oob \in OobBytes :
          Public("dealloc", rg[1], rg[2], {}, fail, oob)

CommitData ==
    /\ Ready
    /\ \E rg \in Ranges, prot \in Prots \ {{}}, fail \in FailPlans :
          Public("commit_data", rg[1], rg[2], prot, fail, 0)

ModifyPermissions ==
    /\ Ready
    /\ \E rg \in Ranges, prot \in Prots, fail \in FailPlans :
          Public("modify_permissions", rg[1], rg[2], prot, fail, 0)

ModifyType ==
    /\ Ready
    /\ \E addr \in Addrs, fail \in FailPlans :
          Public("modify_type", addr, SGX_PAGE_SIZE, {"TCS"}, fail, 0)

Next ==
    \/ AllocAny
    \/ AllocFixed
    \/ Commit
    \/ Uncommit
    \/ Dealloc
    \/ CommitData
    \/ ModifyPermissions
    \/ ModifyType

Spec == Init /\ [][Next]_vars

(***************************************************************************)
(* The public calls on one region of the user window, with every flag the *)
(* driver tells apart: regions of up to MaxRegionPages pages placed by the *)
(* EMM, that grow up or down, and every permission the hardware accepts.   *)
(***************************************************************************)
RegionSizes == {k * SGX_PAGE_SIZE : k \in 1..MaxRegionPages}
RegionKinds == Kinds \cup {{"COMMIT_NOW", "GROWSDOWN"}}
RegionProts == Prots \cup {{"R", "X"}, {"R", "W", "X"}}
RegionRanges ==
    {<<a, k * SGX_PAGE_SIZE>> : a \in UserAddrs, k \in 1..MaxRangePages}

RegionAlloc ==
    /\ Ready
    /\ \E size \in RegionSizes, kind \in RegionKinds, fail \in FailPlans :
          Public("alloc", NULL, size, kind, fail, 0)

RegionCommit ==
    /\ Ready
    /\ \E rg \in RegionRanges, fail \in FailPlans :
          Public("commit", rg[1], rg[2], {}, fail, 0)

RegionUncommit ==
    /\ Ready
    /\ \E rg \in RegionRanges, fail \in FailPlans, oob \in OobBytes :
          Public("uncommit", rg[1], rg[2], {}, fail, oob)

RegionDealloc ==
    /\ Ready
    /\ \E rg \in RegionRanges, fail \in FailPlans, oob \in OobBytes :
          Public("dealloc", rg[1], rg[2], {}, fail, oob)

RegionCommitData ==
    /\ Ready
    /\ \E rg \in RegionRanges, prot \in RegionProts \ {{}}, fail \in FailPlans :
          Public("commit_data", rg[1], rg[2], prot, fail, 0)

RegionModifyPermissions ==
    /\ Ready
    /\ \E rg \in RegionRanges, prot \in RegionProts, fail \in FailPlans :
          Public("modify_permissions", rg[1], rg[2], prot, fail, 0)

RegionModifyType ==
    /\ Ready
    /\ \E addr \in UserAddrs, fail \in FailPlans :
          Public("modify_type", addr, SGX_PAGE_SIZE, {"TCS"}, fail, 0)

NextRegion ==
    \/ RegionAlloc
    \/ RegionCommit
    \/ RegionUncommit
    \/ RegionDealloc
    \/ RegionCommitData
    \/ RegionModifyPermissions
    \/ RegionModifyType

SpecRegion == Init /\ [][NextRegion]_vars

(***************************************************************************)
(* What the claims speak of.                                               *)
(***************************************************************************)
Emas(r, u) == {r[i] : i \in 1..Len(r)} \cup {u[i] : i \in 1..Len(u)}

PageSet(start, size) ==
    {start + i * SGX_PAGE_SIZE : i \in 0..((size \div SGX_PAGE_SIZE) - 1)}

AllPages == PageSet(EnclaveBase, EnclaveEnd - EnclaveBase)

Returned == halt = "run"

HasMap(e) == e.eaccept_map.ptr # NULL

IsReserve(e) == "RESERVE" \in e.alloc_flags

\* The nodes of 'emas' that overlap the range.
InRange(emas, start, size) ==
    {e \in emas : e.start_addr < start + size /\ ema_end(e) > start}

Covered(emas, p) == \E e \in emas : ema_overlap_addr(e, p)

\* The commit bit of page p: 1 or 0, or -1 when no node with a bitmap holds p.
PageBit(emas, p) ==
    LET on == {e \in emas : ema_overlap_addr(e, p) /\ HasMap(e)}
        e == CHOOSE x \in on : TRUE
    IN  IF on = {} THEN -1
        ELSE IF bit_array_test(e.eaccept_map, PagePos(e, p), 0) THEN 1
        ELSE 0

Prechecked == {"commit", "uncommit", "modify_permissions", "commit_data"}

\* The result of the can_X precheck that the call op(addr, size) runs in the
\* current state: 0 when it passes, and when the call does not get to it.
Precheck(op, addr, size) ==
    LET m == Machine({}, 0)
        root == RootOf(m, addr, size)
        sr == search_ema_range(m, root, addr, addr + size)
        f == sr.ema_begin
        l == sr.ema_end
    IN  IF op \notin Prechecked \/ root = NULL THEN 0
        ELSE IF sr.ret # 0 THEN 0
        ELSE IF op = "commit" THEN ema_can_commit(m, f, l, addr, addr + size)
        ELSE IF op = "uncommit" THEN ema_can_uncommit(m, f, l, addr, addr + size)
        ELSE IF op = "modify_permissions"
        THEN ema_can_modify_permissions(m, f, l, addr, addr + size)
        ELSE ema_can_commit_data(m, f, l, addr, addr + size)

MachineUnchanged == UNCHANGED <<rts, user, hp, hw, halt>>

\* Consecutive nodes a, b of a list: a.start < b.start, a.start + a.size <= b.start.
Sorted(l) ==
    \A i \in 1..(Len(l) - 1) :
        /\ l[i].start_addr < l[i + 1].start_addr
        /\ ema_end(l[i]) <= l[i + 1].start_addr

\* C1: after any sequence of public operations, failed ones included, each
\* list is strictly increasing in start address and no two nodes on it
\* overlap.
C1_SortedDisjoint == Returned => Sorted(rts) /\ Sorted(user)

\* a permission change has split a node of the user list in two
C1_Witness ==
    /\ call.op = "modify_permissions" /\ call.ret = 0 /\ Returned
    /\ \E i \in 1..(Len(user) - 1) :
          /\ ema_end(user[i]) = user[i + 1].start_addr
          /\ HasMap(user[i]) /\ HasMap(user[i + 1])
          /\ user[i].si_flags # user[i + 1].si_flags

\* C2: every node of the user list lies inside [user_base, user_end), every
\* node of the RTS list is disjoint from it.
C2_Windows ==
    Returned =>
        /\ \A i \in 1..Len(user) :
              user[i].start_addr >= mm_user_base /\ ema_end(user[i]) <= mm_user_end
        /\ \A i \in 1..Len(rts) :
              ema_end(rts[i]) <= mm_user_base \/ rts[i].start_addr >= mm_user_end

\* both lists hold nodes placed by calls, one of them at a fixed address
\* that ends at the end of the user window
C2_Witness ==
    /\ Returned /\ Len(rts) > 0
    /\ call.op = "alloc" /\ call.ret = 0 /\ "FIXED" \in call.arg
    /\ \E i \in 1..Len(user) : ema_end(user[i]) = mm_user_end

\* C3: after every public operation returns, a node has an eaccept_map iff
\* it is not a RESERVE node.
C3_MapIffNotReserve ==
    Returned => \A e \in Emas(rts, user) : HasMap(e) <=> ~IsReserve(e)

\* a dealloc cut a node with a bitmap and left a part of it
C3_Witness ==
    /\ Returned /\ call.op = "dealloc" /\ call.ret = 0
    /\ \E e \in Emas(rts, user) :
          /\ HasMap(e)
          /\ \/ ema_end(e) = call.addr
             \/ e.start_addr = call.addr + call.size
    /\ \E e \in Emas(rts, user) : IsReserve(e) /\ e.start_addr \in UserAddrs

\* C4: after every public operation returns, with success or an error, the
\* bit of every page of every non-RESERVE node is 1 iff the enclave has
\* accepted the page.
C4_MapIsHardware ==
    Returned =>
        \A e \in Emas(rts, user) :
            ~IsReserve(e) /\ HasMap(e) =>
                \A p \in PageSet(e.start_addr, e.size) :
                    bit_array_test(e.eaccept_map, PagePos(e, p), 0) <=> p \in hw

\* C5: when the can_X precheck of commit, uncommit, modify_permissions or
\* commit_data returns an error, the call returns that error, issues no
\* out-call and no instruction, and leaves lists, bitmaps, flags, heap and
\* hardware as they were.
C5_PrecheckErrorMutatesNothing ==
    [][Precheck(call'.op, call'.addr, call'.size) # 0 =>
          /\ call'.ret = Precheck(call'.op, call'.addr, call'.size)
          /\ call'.trace = <<>>
          /\ MachineUnchanged]_vars

\* a commit_data was refused by its precheck because a page was committed
C5_Witness ==
    /\ call.op = "commit_data" /\ call.ret = EACCES /\ call.trace = <<>>
    /\ Precheck(call.op, call.addr, call.size) = EACCES
    /\ \E p \in PageSet(call.addr, call.size) : PageBit(Emas(rts, user), p) = 1

\* C6: commit, uncommit, modify_permissions and commit_data return EINVAL
\* whenever some page of the range is covered by no node, wherever the page
\* lies.
C6_UncoveredIsEINVAL ==
    [][(/\ call'.op \in Prechecked
        /\ \E p \in PageSet(call'.addr, call'.size) : ~Covered(Emas(rts, user), p))
          => call'.ret = EINVAL]_vars

\* The nodes that overlap the range, in list order.
RangeNodes(addr, size) ==
    SelectSeq(IF RootOf(Machine({}, 0), addr, size) = rts_ema_guard THEN rts ELSE user,
              LAMBDA e : e.start_addr < addr + size /\ ema_end(e) > addr)

\* The nodes the claim C7 speaks of: commit refuses RESERVE nodes and nodes
\* without write permission, uncommit refuses RESERVE nodes.
Refused(op, e) ==
    \/ op = "commit" /\ (IsReserve(e) \/ "W" \notin e.si_flags)
    \/ op = "uncommit" /\ IsReserve(e)

RefusedAt(op, addr, size) ==
    {i \in 1..Len(RangeNodes(addr, size)) : Refused(op, RangeNodes(addr, size)[i])}

\* The range is a valid range of one of the windows and holds a refused node.
HoldsRefused(op, addr, size) ==
    /\ op \in {"commit", "uncommit"}
    /\ RootOf(Machine({}, 0), addr, size) # NULL
    /\ RefusedAt(op, addr, size) # {}

\* Two consecutive nodes of the range, the first refused one or nodes below
\* it, are separated by pages no node covers.
GapBeforeRefused(op, addr, size) ==
    LET sq == RangeNodes(addr, size)
        k == CHOOSE i \in RefusedAt(op, addr, size) :
                 \A j \in RefusedAt(op, addr, size) : i <= j
    IN  \E i \in 2..k : ema_end(sq[i - 1]) < sq[i].start_addr

\* C7 as stated: commit over a range with a RESERVE node or a node without
\* write permission, and uncommit over a range with a RESERVE node, return
\* EACCES and change no page state.
C7_RefusedIsEACCES ==
    [][HoldsRefused(call'.op, call'.addr, call'.size) =>
          call'.ret = EACCES /\ MachineUnchanged]_vars

\* C7, amended: such a commit or uncommit returns EACCES and changes nothing,
\* unless two consecutive nodes of the range, at or below the first refused
\* node, are separated by a gap: then it returns EINVAL and changes nothing.
C7_RefusedIsEACCESUnlessGap ==
    [][HoldsRefused(call'.op, call'.addr, call'.size) =>
          /\ call'.ret = IF GapBeforeRefused(call'.op, call'.addr, call'.size)
                         THEN EINVAL ELSE EACCES
          /\ MachineUnchanged]_vars

\* a commit reached a RESERVE node through a writable node next to it
C7_Witness ==
    /\ call.op = "commit" /\ call.ret = EACCES
    /\ HoldsRefused(call.op, call.addr, call.size)
    /\ LET sq == RangeNodes(call.addr, call.size)
       IN  /\ Len(sq) >= 2
           /\ ~Refused("commit", sq[1])
           /\ IsReserve(sq[2])
           /\ ema_end(sq[1]) = sq[2].start_addr

\* The range is covered, page by page, by REG nodes that are not RESERVE.
RegCovered(addr, size) ==
    \A p \in PageSet(addr, size) :
        \E e \in Emas(rts, user) :
            ema_overlap_addr(e, p) /\ ~IsReserve(e) /\ "REG" \in e.si_flags

\* C8: modify_permissions over a gap-free range of REG, non-RESERVE nodes
\* with at least one uncommitted page returns EINVAL and changes no
\* permission, bitmap bit or list node.
C8_UncommittedIsEINVAL ==
    [][(/\ call'.op = "modify_permissions"
        /\ RootOf(Machine({}, 0), call'.addr, call'.size) # NULL
        /\ RegCovered(call'.addr, call'.size)
        /\ \E p \in PageSet(call'.addr, call'.size) :
              PageBit(Emas(rts, user), p) = 0)
          => call'.ret = EINVAL /\ MachineUnchanged]_vars

\* a permission change was refused over a range with a committed and an
\* uncommitted page
C8_Witness ==
    /\ call.op = "modify_permissions" /\ call.ret = EINVAL
    /\ RegCovered(call.addr, call.size)
    /\ \E p \in PageSet(call.addr, call.size) : PageBit(Emas(rts, user), p) = 0
    /\ \E p \in PageSet(call.addr, call.size) : PageBit(Emas(rts, user), p) = 1

\* Every bit that differs after the step went from 'from' to 'to' and
\* belongs to a page of the range of the call.
BitsFrame(from, to) ==
    \A p \in AllPages :
        LET b == PageBit(Emas(rts, user), p)
            a == PageBit(Emas(rts', user'), p)
        IN  b # -1 /\ a # b =>
                /\ b = from /\ a = to
                /\ p \in PageSet(call'.addr, call'.size)

\* C9: a successful commit changes bits only from 0 to 1 and only inside
\* its range, a successful uncommit only from 1 to 0 and only inside its
\* range, a successful commit_data only from 0 to 1 and only inside its
\* range; the bits of all other pages are unchanged.
C9_BitsMonotoneInRange ==
    [][call'.ret = 0 /\ halt' = "run" =>
          /\ call'.op \in {"commit", "commit_data"} => BitsFrame(0, 1)
          /\ call'.op = "uncommit" => BitsFrame(1, 0)]_vars

\* an uncommit cleared a bit of a node that keeps a committed page
C9_Witness ==
    /\ call.op = "uncommit" /\ call.ret = 0 /\ Returned
    /\ \E p \in PageSet(call.addr, call.size) :
          PageBit(Emas(rts, user), p) = 0 /\ p \notin hw
    /\ \E e \in Emas(rts, user) :
          /\ e.start_addr \in UserAddrs
          /\ \E p, q \in PageSet(e.start_addr, e.size) :
                PageBit({e}, p) = 0 /\ PageBit({e}, q) = 1

\* The machine a step leaves, at the start of the next call.
MachineAfter ==
    [rts |-> rts', user |-> user', hp |-> hp', hw |-> hw',
     mm_user_end |-> mm_user_end', trace |-> <<>>, fail |-> {}, n |-> 0, oob |-> 0,
     ub |-> FALSE, halt |-> halt',
     lock |-> [depth |-> lock'.depth, deep |-> lock'.depth]]

\* C10: commit over a range whose pages are all committed issues no EACCEPT
\* and leaves bitmaps and lists unchanged, and after a successful commit the
\* same commit again succeeds, issues nothing and changes nothing.
C10_CommitIdempotent ==
    [][call'.op = "commit" /\ halt' = "run" =>
          /\ (\A p \in PageSet(call'.addr, call'.size) :
                 PageBit(Emas(rts, user), p) = 1)
                => call'.trace = <<>> /\ MachineUnchanged
          /\ call'.ret = 0 =>
                LET r2 == sgx_mm_commit(MachineAfter, call'.addr, call'.size)
                IN  /\ r2.ret = 0
                    /\ r2.m.trace = <<>>
                    /\ Kept(r2.m) = Kept(MachineAfter)]_vars

\* a commit has just accepted pages, and the same commit again has nothing
\* left to accept
C10_Witness ==
    /\ Returned /\ call.op = "commit" /\ call.ret = 0 /\ call.trace # <<>>
    /\ \A p \in PageSet(call.addr, call.size) : PageBit(Emas(rts, user), p) = 1
    /\ sgx_mm_commit(Machine({}, 0), call.addr, call.size).m.trace = <<>>

ProtOf(e) == e.si_flags \cap SGX_EMA_PROT_MASK

TypeOf(e) == e.si_flags \cap SGX_EMA_PAGE_TYPE_MASK

\* The out-calls and instructions of a trace that touch [start, end).
EventsIn(tr, start, end) ==
    SelectSeq(tr, LAMBDA ev : ev.addr < end /\ ev.addr + ev.len > start)

\* C11: modify_permissions to the permissions a node of the range already
\* has issues no out-call and no instruction on the pages of that node and
\* leaves the node as it was, not split and with the same si_flags, also
\* when the range covers only a part of the node.
C11_SamePermsNoOp ==
    [][call'.op = "modify_permissions" =>
          \A e \in InRange(Emas(rts, user), call'.addr, call'.size) :
              ProtOf(e) = call'.arg =>
                  /\ EventsIn(call'.trace, e.start_addr, ema_end(e)) = <<>>
                  /\ e \in Emas(rts', user')]_vars

\* a permission change went through a node of the range and passed over
\* the node next to it, which had the new permissions and lies partly
\* outside the range
C11_Witness ==
    /\ call.op = "modify_permissions" /\ call.ret = 0 /\ Returned
    /\ call.trace # <<>>
    /\ \E e \in InRange(Emas(rts, user), call.addr, call.size) :
          /\ ProtOf(e) = call.arg /\ HasMap(e)
          /\ ema_end(e) > call.addr + call.size
          /\ EventsIn(call.trace, e.start_addr, ema_end(e)) = <<>>

\* The addresses of the pages accepted in [start, end) with the state
\* 'state' in the SECINFO, in the order of the trace.
AcceptedIn(tr, state, start, end) ==
    LET acc == SelectSeq(tr, LAMBDA ev : /\ ev.op = "eaccept" /\ state \in ev.si
                                         /\ ev.addr >= start /\ ev.addr < end)
    IN  [i \in 1..Len(acc) |-> acc[i].addr]

\* The n pages from start, lowest first and highest first.
PagesUp(start, n) == [i \in 1..n |-> start + (i - 1) * SGX_PAGE_SIZE]

PagesDown(start, n) == [i \in 1..n |-> start + (n - i) * SGX_PAGE_SIZE]

IsPrefix(s, t) == Len(s) <= Len(t) /\ s = SubSeq(t, 1, Len(s))

\* The alloc_ocall events of a trace for regions with the flag 'flag'.
AllocOcalls(tr, flag) ==
    {i \in 1..Len(tr) : tr[i].op = "alloc_ocall" /\ flag \in tr[i].to}

HasBit(e, p) == HasMap(e) /\ bit_array_test(e.eaccept_map, PagePos(e, p), 0)

\* The maximal runs of committed pages of e in [from, end), lowest first,
\* each with the permissions and the page type of e.
RECURSIVE CommittedRuns(_, _, _)
CommittedRuns(e, from, end) ==
    IF from >= end THEN <<>>
    ELSE IF ~HasBit(e, from) THEN CommittedRuns(e, from + SGX_PAGE_SIZE, end)
    ELSE LET clear == {q \in PageSet(from, end - from) : ~HasBit(e, q)}
             stop == IF clear = {} THEN end ELSE Least(clear)
         IN  <<[start |-> from, stop |-> stop, prot |-> ProtOf(e),
                type |-> TypeOf(e)]>> \o CommittedRuns(e, stop, end)

\* The runs of the nodes of a sequence inside [start, end), in list order.
RECURSIVE RunsOf(_, _, _)
RunsOf(nodes, start, end) ==
    IF nodes = <<>> THEN <<>>
    ELSE CommittedRuns(Head(nodes), MAX(start, Head(nodes).start_addr),
                       MIN(end, ema_end(Head(nodes))))
             \o RunsOf(Tail(nodes), start, end)

\* What the trim of one run issues: the out-call to TRIM, an EACCEPT of
\* every page from the lowest up, the out-call that notifies of the trim.
TrimOfRun(run) ==
    <<Event("modify_ocall", run.start, run.stop - run.start,
            run.prot \cup run.type, run.prot \cup {"TRIM"}, 0)>>
        \o [i \in 1..((run.stop - run.start) \div SGX_PAGE_SIZE) |->
               Event("eaccept", run.start + (i - 1) * SGX_PAGE_SIZE, SGX_PAGE_SIZE,
                     {"TRIM", "MODIFIED"}, {}, 0)]
        \o <<Event("modify_ocall", run.start, run.stop - run.start,
                   run.prot \cup {"TRIM"}, run.prot \cup {"TRIM"}, 0)>>

RECURSIVE TrimOfRuns(_)
TrimOfRuns(runs) ==
    IF runs = <<>> THEN <<>> ELSE TrimOfRun(Head(runs)) \o TrimOfRuns(Tail(runs))

\* The out-calls and instructions of a trace that trim pages, without the
\* answers of the oracle.
TrimEvents(tr) ==
    LET trim == SelectSeq(tr, LAMBDA ev : \/ ev.op = "modify_ocall" /\ "TRIM" \in ev.to
                                          \/ ev.op = "eaccept" /\ "TRIM" \in ev.si)
    IN  [i \in 1..Len(trim) |-> [trim[i] EXCEPT !.failed = FALSE]]

\* The number of trim-notify out-calls of a trace.
Notified(tr) ==
    Len(SelectSeq(tr, LAMBDA ev : ev.op = "modify_ocall" /\ "TRIM" \in ev.si))

\* The trim of the runs 'runs' by the step: the trim events of the call are
\* those of the runs, one run after the other, all of them when the call
\* succeeds; the bits of a run are cleared when its notify out-call is
\* issued and not before; no other page is trimmed.
TrimmedByRuns(runs) ==
    /\ IsPrefix(TrimEvents(call'.trace), TrimOfRuns(runs))
    /\ call'.ret = 0 /\ halt' = "run" => TrimEvents(call'.trace) = TrimOfRuns(runs)
    /\ \A j \in 1..Len(runs) :
          \A p \in PageSet(runs[j].start, runs[j].stop - runs[j].start) :
              PageBit(Emas(rts', user'), p)
                  = IF j <= Notified(call'.trace) THEN 0 ELSE 1

\* C14: uncommit trims each maximal run of committed pages of each node of
\* the range as one block: modify_ocall(run, prot|type to prot|TRIM), with
\* type REG for a regular page, then EACCEPT(MODIFIED|TRIM) on every page of
\* the run in ascending order, then the bits of the run cleared, then
\* modify_ocall(run, prot|TRIM to prot|TRIM); pages whose bit is 0 get no
\* out-call and no EACCEPT, and a run starts after the notify out-call of
\* the run before it.
C14_UncommitByRuns ==
    [][call'.op = "uncommit" /\ Precheck("uncommit", call'.addr, call'.size) = 0 =>
          TrimmedByRuns(RunsOf(RangeNodes(call'.addr, call'.size), call'.addr,
                               call'.addr + call'.size))]_vars

\* The flags an alloc passes to the driver.
AllocFlags == call.arg \ {"SYSTEM"}

\* The out-call of the region of the alloc itself; the nested alloc of a
\* heap reserve has another size.
OwnAllocOcall(ev) ==
    ev.op = "alloc_ocall" /\ ev.to = AllocFlags /\ ev.len = call.size

\* The node that covers exactly [start, start + size), as a set.
NodeAt(emas, start, size) ==
    {e \in emas : e.start_addr = start /\ e.size = size}

\* C13: ema_do_alloc on a RESERVE node issues no out-call and no EACCEPT on
\* the region and makes no bitmap; on another node the first event on the
\* region is its alloc_ocall, every EACCEPT comes after it, and on success
\* the bitmap has one bit per page, all ones for COMMIT_NOW and all zeros
\* for COMMIT_ON_DEMAND; when the alloc_ocall fails the alloc returns EFAULT,
\* nothing is issued after it and no bitmap is left for the region.
C13_AllocOcallAndMap ==
    call.op = "alloc" /\ Returned =>
        /\ call.ret = 0 =>
              LET on == EventsIn(call.trace, call.out, call.out + call.size)
              IN  \E e \in NodeAt(Emas(rts, user), call.out, call.size) :
                      IF "RESERVE" \in call.arg
                      THEN on = <<>> /\ ~HasMap(e)
                      ELSE /\ on # <<>> /\ OwnAllocOcall(on[1]) /\ ~on[1].failed
                           /\ on[1].addr = call.out /\ on[1].si = {"REG"}
                           /\ \A i \in 2..Len(on) : on[i].op = "eaccept"
                           /\ HasMap(e)
                           /\ e.eaccept_map.n_bits = call.size \div SGX_PAGE_SIZE
                           /\ \A p \in PageSet(call.out, call.size) :
                                  HasBit(e, p) <=> "COMMIT_NOW" \in call.arg
        /\ \A i \in 1..Len(call.trace) :
              LET ev == call.trace[i]
              IN  OwnAllocOcall(ev) /\ ev.failed =>
                      /\ call.ret = EFAULT
                      /\ i = Len(call.trace)
                      /\ \A j \in 1..(i - 1) :
                             ~(call.trace[j].addr >= ev.addr
                               /\ call.trace[j].addr < ev.addr + ev.len)
                      /\ \A e \in InRange(Emas(rts, user), ev.addr, ev.len) :
                             ~HasMap(e)

\* an alloc of a COMMIT_NOW region of several pages has succeeded after the
\* heap grew for its node: the trace holds the out-call of the new reserve
\* and, after it, the out-call and the EACCEPTs of the region
C13_Witness ==
    /\ call.op = "alloc" /\ call.ret = 0 /\ Returned
    /\ "COMMIT_NOW" \in call.arg /\ call.size > SGX_PAGE_SIZE
    /\ \E i \in 1..Len(call.trace) : call.trace[i].op = "alloc_ocall"
                                        /\ ~OwnAllocOcall(call.trace[i])
    /\ \E e \in NodeAt(Emas(rts, user), call.out, call.size) :
          \A p \in PageSet(call.out, call.size) : HasBit(e, p)

\* The events of a sequence without the answers of the oracle.
Plain(tr) == [i \in 1..Len(tr) |-> [tr[i] EXCEPT !.failed = FALSE]]

\* The permissions recorded for page p, those of a node that covers it.
PermAt(emas, p) ==
    ProtOf(CHOOSE e \in emas : ema_overlap_addr(e, p))

\* What the change of [from, end) from 'old' to 'new' issues page by page:
\* EMODPE when a permission is added, EACCEPT unless the new ones are R+W+X.
RECURSIVE PermOfPages(_, _, _, _)
PermOfPages(from, end, old, new) ==
    IF from >= end THEN <<>>
    ELSE (IF new \cup old # old
          THEN <<Event("emodpe", from, SGX_PAGE_SIZE, new \cup {"REG", "PR"}, {}, 0)>>
          ELSE <<>>)
         \o (IF new # {"R", "W", "X"}
             THEN <<Event("eaccept", from, SGX_PAGE_SIZE, new \cup {"REG", "PR"},
                          {}, 0)>>
             ELSE <<>>)
         \o PermOfPages(from + SGX_PAGE_SIZE, end, old, new)

\* What the change of the part [from, end) of the node e issues: the
\* out-call, 'pages', and for PROT_NONE the out-call that pins the mapping.
PermOfNode(e, from, end, new) ==
    LET pages == PermOfPages(from, end, ProtOf(e), new)
    IN  [from |-> from, size |-> end - from, old |-> ProtOf(e),
         done |-> 1 + Len(pages),
         ev |-> <<Event("modify_ocall", from, end - from, ProtOf(e) \cup {"REG"},
                        new \cup {"REG"}, 0)>>
                    \o pages
                    \o (IF new = {}
                        THEN <<Event("modify_ocall", from, end - from, {"REG"},
                                     {"REG"}, 0)>>
                        ELSE <<>>)]

\* The events of the first k entries of a plan, one entry after the other.
RECURSIVE EventsOfPlan(_, _)
EventsOfPlan(plan, k) ==
    IF k = 0 THEN <<>> ELSE EventsOfPlan(plan, k - 1) \o plan[k].ev

\* The plan of a permission change of [start, end) to 'new': an entry for
\* every node of the range with other permissions, in list order.
PermPlan(start, end, new) ==
    LET nodes == SelectSeq(RangeNodes(start, end - start),
                           LAMBDA e : ProtOf(e) # new)
    IN  [i \in 1..Len(nodes) |->
            PermOfNode(nodes[i], MAX(start, nodes[i].start_addr),
                       MIN(end, ema_end(nodes[i])), new)]

\* C15: for each node of the range whose permissions differ from new_prot,
\* modify_permissions issues modify_ocall(old|REG to new|REG) for the part
\* in the range, then for each page in ascending order EMODPE iff new_prot
\* has a permission the old ones lack, followed by EACCEPT(PR|REG|new_prot)
\* unless new_prot is R+W+X, and iff new_prot is NONE a final
\* modify_ocall(NONE to NONE); the si_flags take the new permissions only
\* after all pages of the node are processed.
C15_PermissionChangeOrder ==
    [][(/\ call'.op = "modify_permissions"
        /\ Precheck("modify_permissions", call'.addr, call'.size) = 0) =>
          LET plan == PermPlan(call'.addr, call'.addr + call'.size, call'.arg)
              want == EventsOfPlan(plan, Len(plan))
              got == EventsIn(call'.trace, call'.addr, call'.addr + call'.size)
          IN  /\ IsPrefix(Plain(got), want)
              /\ call'.ret = 0 =>
                    /\ Plain(got) = want
                    /\ \A e \in InRange(Emas(rts', user'), call'.addr, call'.size) :
                           ProtOf(e) = call'.arg
              /\ \A i \in 1..Len(plan) :
                    LET done == Len(EventsOfPlan(plan, i - 1)) + plan[i].done
                    IN  (Len(got) < done \/ got[done].failed) =>
                            \A p \in PageSet(plan[i].from, plan[i].size) :
                                PermAt(Emas(rts', user'), p) = plan[i].old]_vars

\* a permission change of several pages of one node has added a permission:
\* after the out-call every page got its EMODPE and then its EACCEPT, and
\* the pages have the new permissions
C15_Witness ==
    /\ call.op = "modify_permissions" /\ call.ret = 0 /\ Returned
    /\ call.size > SGX_PAGE_SIZE
    /\ LET got == EventsIn(call.trace, call.addr, call.addr + call.size)
       IN  /\ Len(got) = 1 + 2 * (call.size \div SGX_PAGE_SIZE)
           /\ got[1].op = "modify_ocall" /\ got[1].len = call.size
           /\ got[2].op = "emodpe" /\ got[2].addr = call.addr
           /\ got[3].op = "eaccept" /\ got[3].addr = call.addr
    /\ \A e \in InRange(Emas(rts, user), call.addr, call.size) :
          ProtOf(e) = call.arg

\* Some node of 'emas' is the part [from, end) of the node e with the
\* permissions prot: it has the alloc_flags, page type, handler and priv of
\* e and a bitmap of its own pages in which every page has the bit it has
\* in e.
IsPartOf(emas, e, from, end, prot) ==
    \E x \in emas :
        /\ x.start_addr = from /\ ema_end(x) = end
        /\ ProtOf(x) = prot /\ TypeOf(x) = TypeOf(e)
        /\ x.alloc_flags = e.alloc_flags
        /\ x.handler = e.handler /\ x.priv = e.priv
        /\ HasMap(x)
        /\ x.eaccept_map.n_bits = (end - from) \div SGX_PAGE_SIZE
        /\ \A p \in PageSet(from, end - from) : HasBit(x, p) <=> HasBit(e, p)

\* C16: a successful modify_permissions that changes the permissions of a
\* strict interior sub-range [s, e) of one node leaves exactly three nodes on
\* the range of the node: [start, s) and [e, end) with the old permissions
\* and [s, e) with the new ones, all with the alloc_flags, page type, handler
\* and priv of the node, and every page with the commit bit it had.
C16_InteriorChangeSplitsInThree ==
    [][call'.op = "modify_permissions" /\ call'.ret = 0 /\ halt' = "run" =>
          \A e \in Emas(rts, user) :
              (/\ e.start_addr < call'.addr
               /\ call'.addr + call'.size < ema_end(e)
               /\ ProtOf(e) # call'.arg) =>
                  LET after == InRange(Emas(rts', user'), e.start_addr, e.size)
                  IN  /\ Cardinality(after) = 3
                      /\ IsPartOf(after, e, e.start_addr, call'.addr, ProtOf(e))
                      /\ IsPartOf(after, e, call'.addr, call'.addr + call'.size,
                                  call'.arg)
                      /\ IsPartOf(after, e, call'.addr + call'.size, ema_end(e),
                                  ProtOf(e))]_vars

\* the middle page of a region of three pages got other permissions than
\* the pages around it, one of which is committed and one is not
C16_Witness ==
    /\ call.op = "modify_permissions" /\ call.ret = 0 /\ Returned
    /\ call.size = SGX_PAGE_SIZE
    /\ \E i \in 1..(Len(user) - 2) :
          /\ user[i + 1].start_addr = call.addr
          /\ ema_end(user[i]) = call.addr
          /\ user[i + 2].start_addr = call.addr + call.size
          /\ ProtOf(user[i + 1]) = call.arg
          /\ ProtOf(user[i]) # call.arg /\ ProtOf(user[i + 2]) = ProtOf(user[i])
          /\ HasBit(user[i + 1], call.addr)
          /\ HasBit(user[i], user[i].start_addr)
          /\ HasMap(user[i + 2]) /\ ~HasBit(user[i + 2], user[i + 2].start_addr)

\* The pages of node e other than the page at addr are in 'emas' with the
\* flags and the commit bit they have in e.
OtherPagesKept(emas, e, addr) ==
    \A p \in PageSet(e.start_addr, e.size) \ {addr} :
        \E y \in emas :
            /\ ema_overlap_addr(y, p) /\ ~ema_overlap_addr(y, addr)
            /\ y.si_flags = e.si_flags /\ y.alloc_flags = e.alloc_flags
            /\ HasMap(y) = HasMap(e)
            /\ HasBit(y, p) <=> HasBit(e, p)

\* What the conversion of the page at addr issues on that page.
TcsEvents(addr) ==
    << Event("modify_ocall", addr, SGX_PAGE_SIZE,
             SGX_EMA_PROT_READ_WRITE \cup {"REG"},
             SGX_EMA_PROT_READ_WRITE \cup {"TCS"}, 0),
       Event("eaccept", addr, SGX_PAGE_SIZE, {"TCS", "MODIFIED"}, {}, 0) >>

\* C17: the conversion of the page at addr to TCS returns EACCES, with no
\* out-call, no EACCEPT and no split, when the page is uncommitted or is a
\* committed page not of type TCS that is not REG with exactly R+W; for a
\* committed REG page with R+W it issues modify_ocall(REG to TCS) and then
\* EACCEPT(MODIFIED|TCS), and on success the page at addr is a node of its
\* own with page type TCS and PROT_NONE while the other pages of the node
\* keep their flags and commit bits.
C17_ChangeToTcs ==
    [][call'.op = "modify_type" =>
          \A e \in Emas(rts, user) :
              ema_overlap_addr(e, call'.addr) =>
                  LET addr == call'.addr
                      got == EventsIn(call'.trace, addr, addr + SGX_PAGE_SIZE)
                      convertible == /\ TypeOf(e) = {"REG"}
                                     /\ ProtOf(e) = SGX_EMA_PROT_READ_WRITE
                  IN  /\ (~HasBit(e, addr) \/
                          (TypeOf(e) # {"TCS"} /\ ~convertible)) =>
                              /\ call'.ret = EACCES
                              /\ call'.trace = <<>>
                              /\ MachineUnchanged
                      /\ (HasBit(e, addr) /\ convertible) =>
                              /\ got # <<>>
                              /\ IsPrefix(Plain(got), TcsEvents(addr))
                              /\ (~got[1].failed) => Len(got) = 2
                              /\ (call'.ret = 0 /\ halt' = "run") =>
                                    /\ Plain(got) = TcsEvents(addr)
                                    /\ \E x \in Emas(rts', user') :
                                          /\ x.start_addr = addr
                                          /\ x.size = SGX_PAGE_SIZE
                                          /\ TypeOf(x) = {"TCS"}
                                          /\ ProtOf(x) = SGX_EMA_PROT_NONE
                                          /\ HasBit(x, addr)
                                    /\ OtherPagesKept(Emas(rts', user'), e, addr)]_vars

\* the middle page of a committed region of three pages became a TCS node
\* between two nodes that kept REG and R+W
C17_Witness ==
    /\ call.op = "modify_type" /\ call.ret = 0 /\ Returned
    /\ Len(call.trace) >= 2
    /\ \E i \in 1..(Len(user) - 2) :
          /\ user[i + 1].start_addr = call.addr
          /\ user[i + 1].size = SGX_PAGE_SIZE
          /\ TypeOf(user[i + 1]) = {"TCS"} /\ ProtOf(user[i + 1]) = SGX_EMA_PROT_NONE
          /\ ema_end(user[i]) = call.addr
          /\ user[i + 2].start_addr = call.addr + SGX_PAGE_SIZE
          /\ TypeOf(user[i]) = {"REG"} /\ TypeOf(user[i + 2]) = {"REG"}
          /\ ProtOf(user[i]) = SGX_EMA_PROT_READ_WRITE
          /\ ProtOf(user[i + 2]) = SGX_EMA_PROT_READ_WRITE

\* C18: the conversion of a page to TCS is idempotent: after a successful
\* modify_type(addr, one page, TCS) the same call again returns success,
\* issues no out-call and no EACCEPT and leaves lists, flags and bitmaps
\* unchanged.
C18_TcsIdempotent ==
    [][call'.op = "modify_type" /\ call'.ret = 0 /\ halt' = "run" =>
          LET r2 == sgx_mm_modify_type(MachineAfter, call'.addr, call'.size,
                                       call'.arg)
          IN  /\ r2.ret = 0
              /\ r2.m.trace = <<>>
              /\ Kept(r2.m) = Kept(MachineAfter)]_vars

\* a page has just been converted with an out-call and an EACCEPT, and the
\* same call again finds a TCS page and issues nothing
C18_Witness ==
    /\ Returned /\ call.op = "modify_type" /\ call.ret = 0 /\ call.trace # <<>>
    /\ \E e \in Emas(rts, user) :
          ema_overlap_addr(e, call.addr) /\ TypeOf(e) = {"TCS"}
    /\ LET r2 == sgx_mm_modify_type(Machine({}, 0), call.addr, call.size, call.arg)
       IN  r2.ret = 0 /\ r2.m.trace = <<>>

\* Some page of [start, start + size) is covered by no node.
HasGap(emas, start, size) ==
    \E p \in PageSet(start, size) : ~Covered(emas, p)

\* Node e cannot take data in [start, start + size): it is not writable, not
\* REG or RESERVE, or one of its pages in the range is committed.
RefusesData(e, start, size) ==
    \/ "W" \notin e.si_flags
    \/ TypeOf(e) # {"REG"}
    \/ IsReserve(e)
    \/ \E p \in PageSet(start, size) : ema_overlap_addr(e, p) /\ HasBit(e, p)

\* The EACCEPTCOPY instructions of a trace, as <<page, source>>.
Copies(tr) ==
    LET cp == SelectSeq(tr, LAMBDA ev : ev.op = "eacceptcopy")
    IN  [i \in 1..Len(cp) |-> <<cp[i].addr, cp[i].src>>]

\* C19: commit_data succeeds only if every covered node is REG, writable,
\* not RESERVE and COMMIT_ON_DEMAND and every covered page is uncommitted;
\* otherwise it returns EACCES, or EINVAL for a node that is not
\* COMMIT_ON_DEMAND or for a gap, before any EACCEPTCOPY.  On success
\* EACCEPTCOPY has been issued exactly once for every page of the range in
\* ascending order with the source data + (page - start), every bit of the
\* range is 1, and the permission change runs only after all EACCEPTCOPYs
\* and leaves the range with the target permissions.
C19_CommitData ==
    [][call'.op = "commit_data" =>
          LET start == call'.addr
              size == call'.size
              emas == Emas(rts, user)
              cov == InRange(emas, start, size)
              gap == HasGap(emas, start, size)
              notCod == \E e \in cov : "COMMIT_ON_DEMAND" \notin e.alloc_flags
              refused == \E e \in cov : RefusesData(e, start, size)
              got == EventsIn(call'.trace, start, start + size)
          IN  /\ (gap \/ notCod \/ refused) =>
                    /\ call'.ret \in {EACCES, EINVAL}
                    /\ call'.trace = <<>>
                    /\ call'.ret = EINVAL => (gap \/ notCod)
                    /\ call'.ret = EACCES => refused
              /\ (call'.ret = 0 /\ halt' = "run") =>
                    /\ Copies(call'.trace) =
                          [i \in 1..(size \div SGX_PAGE_SIZE) |->
                              << start + (i - 1) * SGX_PAGE_SIZE,
                                 DataSrc + (i - 1) * SGX_PAGE_SIZE >>]
                    /\ \A i, j \in 1..Len(got) :
                          (i < j /\ got[j].op = "eacceptcopy") =>
                              got[i].op = "eacceptcopy"
                    /\ \A p \in PageSet(start, size) :
                          /\ PageBit(Emas(rts', user'), p) = 1
                          /\ \E e \in Emas(rts', user') :
                                ema_overlap_addr(e, p) /\ ProtOf(e) = call'.arg]_vars

\* Page p was trimmed: a successful EACCEPT(TRIM|MODIFIED) on it is in tr.
Trimmed(tr, p) ==
    \E i \in 1..Len(tr) :
        /\ tr[i].op = "eaccept" /\ tr[i].addr = p
        /\ {"TRIM", "MODIFIED"} \subseteq tr[i].si
        /\ ~tr[i].failed

\* C20: after a successful dealloc of [start, end) no node on the lists
\* overlaps the range; every committed page of the range in a node that is
\* not RESERVE was trimmed, RESERVE nodes are removed without any hardware
\* operation, and of the nodes only partly inside the range the parts
\* outside are still on the list with the same alloc_flags, page type and
\* commit bit of every page.
C20_Dealloc ==
    [][call'.op = "dealloc" /\ call'.ret = 0 /\ halt' = "run" =>
          LET start == call'.addr
              end == call'.addr + call'.size
              after == Emas(rts', user')
          IN  /\ InRange(after, start, call'.size) = {}
              /\ \A e \in InRange(Emas(rts, user), start, call'.size) :
                    /\ \A p \in PageSet(e.start_addr, e.size) :
                          IF start <= p /\ p < end
                          THEN (~IsReserve(e) /\ HasBit(e, p)) =>
                                   Trimmed(call'.trace, p) /\ p \notin hw'
                          ELSE \E y \in after :
                                   /\ ema_overlap_addr(y, p)
                                   /\ y.alloc_flags = e.alloc_flags
                                   /\ TypeOf(y) = TypeOf(e)
                                   /\ HasMap(y) = HasMap(e)
                                   /\ HasBit(y, p) <=> HasBit(e, p)
                    /\ IsReserve(e) =>
                          EventsIn(call'.trace, MAX(start, e.start_addr),
                                   MIN(end, ema_end(e))) = <<>>]_vars

\* The commit bits of node e, page by page; empty when e has no bitmap.
BitsOf(e) ==
    IF HasMap(e)
    THEN [i \in 1..(e.size \div SGX_PAGE_SIZE) |->
             HasBit(e, e.start_addr + (i - 1) * SGX_PAGE_SIZE)]
    ELSE <<>>

\* The contents of the two lists as a set of entries.
Entries(r, u) ==
    {<<e.start_addr, e.size, e.alloc_flags, e.si_flags, BitsOf(e)>> :
        e \in Emas(r, u)}

\* C21: from any reachable state, a successful alloc followed by a
\* successful dealloc of exactly the returned range leaves both lists with
\* the set of (start, size, alloc_flags, si_flags, bitmap contents) entries
\* they had before the alloc.
C21_AllocDeallocRoundTrip ==
    [][call'.op = "alloc" /\ call'.ret = 0 /\ halt' = "run" =>
          LET r2 == sgx_mm_dealloc(MachineAfter, call'.out, call'.size)
          IN  (r2.ret = 0 /\ Running(r2.m)) =>
                  Entries(r2.m.rts, r2.m.user) = Entries(rts, user)]_vars

\* The reserves of the heap hp2 that the heap hp1 does not have.
NewReserves(hp1, hp2) ==
    {hp2.reserve_list[i] : i \in 1..Len(hp2.reserve_list)} \
        {hp1.reserve_list[i] : i \in 1..Len(hp1.reserve_list)}

\* The entry x lies in the region of the reserve rv or in one of its guards.
InReserveArea(x, rv) ==
    /\ x[1] >= rv.ptr - guard_size
    /\ x[1] + x[2] <= rv.base + rv.size + guard_size

\* C21 as amended: a successful alloc into a region that no node covered,
\* followed by a successful dealloc of exactly the returned range, leaves on
\* both lists every entry they had before the alloc, and besides these only
\* entries of the reserves the heap added during the two calls.
C21_RoundTripUpToHeap ==
    [][(call'.op = "alloc" /\ call'.ret = 0 /\ halt' = "run"
        /\ InRange(Emas(rts, user), call'.out, call'.size) = {}) =>
          LET r2 == sgx_mm_dealloc(MachineAfter, call'.out, call'.size)
          IN  (r2.ret = 0 /\ Running(r2.m)) =>
                  /\ Entries(rts, user) \subseteq Entries(r2.m.rts, r2.m.user)
                  /\ \A x \in Entries(r2.m.rts, r2.m.user) \ Entries(rts, user) :
                        \E rv \in NewReserves(hp, r2.m.hp) :
                            InReserveArea(x, rv)]_vars

\* an alloc has just made the heap add a reserve, and the dealloc of the
\* returned range succeeds and takes the new node off the list
C21_Witness ==
    /\ Returned /\ call.op = "alloc" /\ call.ret = 0
    /\ \E i \in 1..Len(call.trace) :
          call.trace[i].op = "alloc_ocall" /\ "FIXED" \in call.trace[i].to
    /\ \E e \in Emas(rts, user) :
          /\ e.start_addr = call.out /\ e.size = call.size
          /\ "FIXED" \notin e.alloc_flags /\ HasMap(e)
    /\ LET r2 == sgx_mm_dealloc(Machine({}, 0), call.out, call.size)
       IN  /\ r2.ret = 0 /\ Running(r2.m)
           /\ InRange(Emas(r2.m.rts, r2.m.user), call.out, call.size) = {}

\* The list an alloc with the flags 'flags' works on.
RootFor(flags) == IF "SYSTEM" \in flags THEN rts_ema_guard ELSE user_ema_guard

\* C22: a FIXED alloc of a range in the window of its list that overlaps a
\* live node which is not RESERVE returns EEXIST and leaves the lists
\* unchanged: the same nodes with the same start addresses, sizes, flags and
\* bitmaps, and no out-call issued.
C22_FixedCollision ==
    [][(/\ call'.op = "alloc" /\ "FIXED" \in call'.arg
        /\ InWindow(Machine({}, 0), RootFor(call'.arg), call'.addr, call'.size)
        /\ \E e \in InRange(Emas(rts, user), call'.addr, call'.size) :
              ~IsReserve(e)) =>
          /\ call'.ret = EEXIST
          /\ call'.trace = <<>>
          /\ rts' = rts /\ user' = user /\ hw' = hw /\ halt' = halt]_vars

\* a FIXED alloc of two pages has just been refused over a RESERVE node
\* followed by a node that is not RESERVE
C22_Witness ==
    /\ Returned /\ call.op = "alloc" /\ "FIXED" \in call.arg /\ call.ret = EEXIST
    /\ call.size = 2 * SGX_PAGE_SIZE
    /\ \E a, b \in Emas(rts, user) :
          /\ ema_overlap_addr(a, call.addr) /\ IsReserve(a)
          /\ ema_overlap_addr(b, call.addr + SGX_PAGE_SIZE) /\ ~IsReserve(b)

\* The requests ema_realloc_from_reserve_range is tried with.
ReallocFlags == {{"RESERVE", "FIXED"}, {"COMMIT_ON_DEMAND", "FIXED"}}

\* The nodes of the span [first, last) of machine m.
SpanNodes(m, first, last) ==
    LET sp == Span(m, first, last) IN [i \in 1..Len(sp) |-> Node(m, sp[i])]

\* The span cannot give way: two consecutive nodes are apart, a node is not
\* RESERVE, or the record of a node lives in the meta reserve.
CannotGiveWay(m, first, last) ==
    LET sp == Span(m, first, last)
        nd == SpanNodes(m, first, last)
    IN  \/ \E i \in 2..Len(nd) : ema_end(nd[i - 1]) # nd[i].start_addr
        \/ \E i \in 1..Len(nd) : ~IsReserve(nd[i])
        \/ \E i \in 1..Len(sp) : InMetaReserve(m.hp, payload_to_block(sp[i]))

\* What C23 says of the result r of the call on the span [first, last) of m
\* for the range [start, start + size) and the flags.
ReallocAsClaimed(m, first, last, start, size, flags, si, r) ==
    LET nd == SpanNodes(m, first, last)
        after == Emas(r.m.rts, r.m.user)
    IN  IF CannotGiveWay(m, first, last)
        THEN r.ret = NULL /\ r.m.rts = m.rts /\ r.m.user = m.user
        ELSE (r.ret # NULL /\ Running(r.m)) =>
                /\ \A x \in InRange(after, start, size) :
                      /\ x.ptr = r.ret
                      /\ x.start_addr = start /\ x.size = size
                      /\ x.alloc_flags = flags /\ x.si_flags = si
                /\ InRange(after, start, size) # {}
                /\ \A i \in {1, Len(nd)} :
                      \A p \in PageSet(nd[i].start_addr, nd[i].size) :
                          (p < start \/ p >= start + size) =>
                              \E y \in after :
                                  /\ ema_overlap_addr(y, p)
                                  /\ IsReserve(y) /\ ~HasMap(y)

\* C23: ema_realloc_from_reserve_range returns no node and leaves the list
\* unchanged when the span [first, last) has a gap, contains a node that is
\* not RESERVE, or contains a node whose record lives in the meta reserve;
\* otherwise on success [start, end) is covered by exactly one new node with
\* the requested flags, and the parts of the first and last RESERVE nodes
\* outside [start, end) remain on the list as RESERVE nodes without bitmaps.
C23_ReallocFromReserve ==
    Returned =>
        \A start \in Addrs, size \in Sizes, flags \in ReallocFlags :
            LET m == Machine({}, 0)
                root == RootOf(m, start, size)
                sr == search_ema_range(m, root, start, start + size)
                si == IF "RESERVE" \in flags THEN SGX_EMA_PROT_NONE
                      ELSE SGX_EMA_PROT_READ_WRITE \cup {"REG"}
            IN  (root # NULL /\ sr.ret = 0) =>
                    ReallocAsClaimed(
                        m, sr.ema_begin, sr.ema_end, start, size, flags, si,
                        ema_realloc_from_reserve_range(
                            m, sr.ema_begin, sr.ema_end, start, start + size,
                            flags, si, 0, 0))

\* The requests the free-region search is tried with.
Roots == {rts_ema_guard, user_ema_guard}

SearchSizes == {k * SGX_PAGE_SIZE : k \in 1..MaxRangePages}

Aligns == {SGX_PAGE_SIZE, 2 * SGX_PAGE_SIZE}

\* The nodes of the list of 'root'.
ListOf(root) == IF root = rts_ema_guard THEN rts ELSE user

\* The first node of the list l that starts at or above x, the guard when
\* there is none.
FirstAtOrAbove(l, root, x) ==
    LET above == {i \in 1..Len(l) : l[i].start_addr >= x}
    IN  IF above = {} THEN root ELSE l[Least(above)].ptr

\* C24: whenever find_free_region(root, size, align) returns true, the
\* address is a multiple of align, [addr, addr + size) lies in the window
\* of the root (and in the enclave), overlaps no node of the root's list,
\* and next_ema is the first node that starts at or above addr + size, or
\* the guard.
C24_FreeRegionIsFree ==
    Returned =>
        \A root \in Roots, size \in SearchSizes, align \in Aligns :
            LET m == Machine({}, 0)
                l == ListOf(root)
                ff == find_free_region(m, root, size, align)
            IN  ff.found =>
                    /\ ff.addr % align = 0
                    /\ InWindow(m, root, ff.addr, size)
                    /\ \A i \in 1..Len(l) :
                          ema_end(l[i]) <= ff.addr \/ l[i].start_addr >= ff.addr + size
                    /\ ff.next_ema = FirstAtOrAbove(l, root, ff.addr + size)

\* the search skips a gap of one page between two nodes, too small for two
\* pages, and finds a region elsewhere
C24_Witness ==
    /\ Returned
    /\ \E i \in 1..(Len(user) - 1) :
          user[i + 1].start_addr - ema_end(user[i]) = SGX_PAGE_SIZE
    /\ LET ff == find_free_region(Machine({}, 0), user_ema_guard,
                                  2 * SGX_PAGE_SIZE, SGX_PAGE_SIZE)
       IN  ff.found /\ ff.next_ema # user_ema_guard

\* The addresses find_free_region_at is tried with: the pages the calls
\* work on, and the pages right below and right above the enclave.
SearchAddrs == Addrs \cup {EnclaveBase - SGX_PAGE_SIZE, EnclaveEnd - SGX_PAGE_SIZE}

\* C25: find_free_region_at(root, addr, size) returns true if and only if
\* [addr, addr + size) is inside the enclave and the window of the root and
\* overlaps no node of the root's list; when it returns true, next_ema is
\* the first node that starts at or above addr + size, or the guard.
C25_FreeRegionAtExact ==
    Returned =>
        \A root \in Roots, addr \in SearchAddrs, size \in SearchSizes :
            LET m == Machine({}, 0)
                l == ListOf(root)
                fa == find_free_region_at(m, root, addr, size)
                free == \A i \in 1..Len(l) :
                            ema_end(l[i]) <= addr \/ l[i].start_addr >= addr + size
            IN  /\ fa.found <=> (/\ sgx_mm_is_within_enclave(addr, size)
                                 /\ InWindow(m, root, addr, size)
                                 /\ free)
                /\ fa.found => fa.next_ema = FirstAtOrAbove(l, root, addr + size)

\* a range of one page between two nodes of the user list is found free,
\* and the range of two pages that starts there is not
C25_Witness ==
    /\ Returned
    /\ \E i \in 1..(Len(user) - 1) :
          /\ user[i + 1].start_addr - ema_end(user[i]) = SGX_PAGE_SIZE
          /\ LET m == Machine({}, 0)
                 a == ema_end(user[i])
             IN  /\ find_free_region_at(m, user_ema_guard, a, SGX_PAGE_SIZE).found
                 /\ find_free_region_at(m, user_ema_guard, a, SGX_PAGE_SIZE).next_ema
                        = user[i + 1].ptr
                 /\ ~find_free_region_at(m, user_ema_guard, a, 2 * SGX_PAGE_SIZE).found

(***************************************************************************)
(* The public calls of two threads.  A thread enters a public operation by *)
(* taking the mutex, runs the body of the operation while it holds it, and *)
(* releases it on return; a thread that finds the mutex held by the other  *)
(* thread waits until it is free.                                          *)
(***************************************************************************)
InEmm(t) == pc[t] \in {"in", "ret"}

\* What the entering thread makes of the mutex.
Acquired(t) ==
    With(sgx_mm_mutex_lock(Machine({}, 0)), LAMBDA ml :
        /\ lock' = [owner |-> t, depth |-> ml.lock.depth, deep |-> ml.lock.deep]
        /\ pc' = [pc EXCEPT ![t] = "in"]
        /\ UNCHANGED <<rts, user, hp, hw, halt, mm_user_end, call, ncalls>>)

LockCalls ==
    {PublicCall("alloc", NULL, size, kind) : size \in Sizes, kind \in Kinds} \cup
    {PublicCall(op, rg[1], rg[2], {}) :
        op \in {"commit", "dealloc"},
        rg \in {x \in Ranges : x[1] \in UserAddrs}}

LockEnter(t) ==
    /\ halt = "run" /\ ncalls < MaxCalls
    /\ pc[t] = "out"
    /\ lock.owner = 0
    /\ Acquired(t)

LockBlock(t) ==
    /\ halt = "run" /\ ncalls < MaxCalls
    /\ pc[t] = "out"
    /\ lock.owner \notin {0, t}
    /\ pc' = [pc EXCEPT ![t] = "blocked"]
    /\ UNCHANGED <<rts, user, hp, hw, halt, mm_user_end, call, ncalls, lock>>

LockWake(t) ==
    /\ halt = "run" /\ ncalls < MaxCalls
    /\ pc[t] = "blocked"
    /\ lock.owner = 0
    /\ Acquired(t)

LockWork(t) ==
    /\ halt = "run"
    /\ pc[t] = "in"
    /\ lock.owner = t
    /\ \E req \in LockCalls, fail \in FailPlans :
          With(Run(Machine(fail, 0), [op |-> "held", call |-> req]), LAMBDA r :
              /\ Update(req.op, req.addr, req.size, req.arg, r)
              /\ lock' = [lock EXCEPT !.depth = r.m.lock.depth,
                                      !.deep = r.m.lock.deep])
    /\ pc' = [pc EXCEPT ![t] = "ret"]

LockExit(t) ==
    /\ halt = "run"
    /\ pc[t] = "ret"
    /\ lock.owner = t
    /\ With(sgx_mm_mutex_unlock(Res(Machine({}, 0), 0)), LAMBDA r :
          lock' = [owner |-> IF r.m.lock.depth = 0 THEN 0 ELSE t,
                   depth |-> r.m.lock.depth, deep |-> lock.deep])
    /\ pc' = [pc EXCEPT ![t] = "out"]
    /\ UNCHANGED <<rts, user, hp, hw, halt, mm_user_end, call, ncalls>>

NextLock ==
    \E t \in Threads :
        \/ LockEnter(t)
        \/ LockBlock(t)
        \/ LockWake(t)
        \/ LockWork(t)
        \/ LockExit(t)

SpecLock == Init /\ [][NextLock]_vars

\* Between two states: what holds of the mutex in each state.
LockHeldByCaller ==
    /\ halt # "deadlock"
    /\ \A t, u \in Threads : InEmm(t) /\ InEmm(u) => t = u
    /\ \A t \in Threads : InEmm(t) => lock.owner = t /\ lock.depth = 1
    /\ (\A t \in Threads : ~InEmm(t)) => lock.owner = 0 /\ lock.depth = 0

\* What holds of each step of a thread.
LockedSteps ==
    /\ \A t \in Threads :
          pc[t] = "in" /\ pc'[t] = "ret" /\ halt' = "run" =>
              lock'.depth = lock.depth /\ lock'.owner = t
    /\ \A t \in Threads :
          pc[t] = "ret" /\ pc'[t] = "out" => lock'.depth = 0 /\ lock'.owner = 0
    /\ <<rts, user, hp, hw>>' # <<rts, user, hp, hw>> =>
          \E t \in Threads : lock.owner = t /\ pc[t] = "in" /\ pc'[t] = "ret"
    /\ \A t \in Threads :
          pc[t] # "in" /\ pc'[t] = "in" => lock.owner = 0 /\ lock'.owner = t
    /\ \A t \in Threads :
          pc[t] = "blocked" /\ lock.owner # 0 => pc'[t] = "blocked"

\* C26: every public operation holds the global recursive mutex from entry
\* to return and leaves the lock depth as it found it, on error returns too;
\* the lists, the heap and the accepted pages change only in a step of the
\* thread that holds the mutex, so two threads never interleave; the nested
\* alloc and commit of add_reserve take the mutex again on the same thread
\* without deadlock; a thread that enters while the other holds the mutex
\* waits until it is released.
C26_GlobalMutex == [](LockHeldByCaller) /\ [][LockedSteps]_vars

\* a call of one thread grew the heap, taking the mutex a second time, while
\* the other thread waited; the call returned
C26_Witness ==
    \E t, u \in Threads :
        /\ pc[t] = "ret" /\ pc[u] = "blocked"
        /\ call.op = "alloc" /\ call.ret = 0
        /\ lock.deep = 2 /\ lock.depth = 1
        /\ halt = "run"

\* The hardware calls a call issues for its own range; the others are those
\* of the heap that grows during the call.
Own(c, ev) == c.addr <= ev.addr /\ ev.addr < c.addr + c.size

\* The first hardware call for the range of call c that failed, 0 when none
\* did.
FirstFailure(c) ==
    LET bad == {i \in 1..Len(c.trace) : c.trace[i].failed /\ Own(c, c.trace[i])}
    IN  IF bad = {} THEN 0 ELSE CHOOSE k \in bad : \A j \in bad : k <= j

\* The error a failed call makes its caller return: a failed out-call for a
\* change is EFAULT, an instruction gives its own code.
ErrorOf(ev) == IF ev.op = "modify_ocall" THEN EFAULT ELSE HwErr

InEvent(ev, p) == ev.addr <= p /\ p < ev.addr + ev.len

\* What the calls before the failure applied is in the state the call leaves:
\* an accepted page has its bit, a trimmed page has lost it, and the pages
\* of an EMA whose change was completed record the new permissions.
Retained(tr, k, op, prot) ==
    \A i \in 1..(k - 1) :
        /\ (op = "commit" /\ tr[i].op = "eaccept" /\ "PENDING" \in tr[i].si) =>
              /\ PageBit(Emas(rts', user'), tr[i].addr) = 1
              /\ tr[i].addr \in hw'
        /\ (op = "uncommit" /\ tr[i].op = "eaccept" /\ "TRIM" \in tr[i].si) =>
              /\ PageBit(Emas(rts', user'), tr[i].addr) = 0
              /\ tr[i].addr \notin hw'
        /\ (op = "modify_permissions" /\ tr[i].op \in {"eaccept", "emodpe"}
            /\ "PR" \in tr[i].si
            /\ \E j \in (i + 1)..k :
                  /\ tr[j].op = "modify_ocall"
                  /\ ~InEvent(tr[j], tr[i].addr)) =>
              PermAt(Emas(rts', user'), tr[i].addr) = prot

\* C27: a commit, uncommit or permission change in which a hardware call
\* fails returns the error of the first call that failed, issues no hardware
\* operation after it, and keeps what it applied before it.
C27_PartialFailure ==
    [][(call'.op \in {"commit", "uncommit", "modify_permissions"}
        /\ halt' = "run" /\ FirstFailure(call') # 0) =>
            LET k == FirstFailure(call')
            IN  /\ call'.ret = ErrorOf(call'.trace[k])
                /\ Len(call'.trace) = k
                /\ Retained(call'.trace, k, call'.op, call'.arg)]_vars

\* C28: an uncommit, dealloc, permission change, commit_data or type change
\* during which a modify out-call fails returns EFAULT.
C28_ModifyOcallFailureIsEFAULT ==
    [][(call'.op \in {"uncommit", "dealloc", "modify_permissions", "commit_data",
                      "modify_type"}
        /\ halt' = "run"
        /\ \E i \in 1..Len(call'.trace) :
              call'.trace[i].op = "modify_ocall" /\ call'.trace[i].failed) =>
            call'.ret = EFAULT]_vars

\* The part of EMA e inside the range of call c.
PartIn(c, e) ==
    PageSet(MAX(c.addr, e.start_addr),
            MIN(c.addr + c.size, ema_end(e)) - MAX(c.addr, e.start_addr))

\* The trace raises the part of e in the range of c to READ before it trims
\* any page of it.
RaisedFirst(c, e) ==
    \E i \in 1..Len(c.trace) :
        /\ Plain(<<c.trace[i]>>) =
              <<Event("modify_ocall", MAX(c.addr, e.start_addr),
                      MIN(c.addr + c.size, ema_end(e)) - MAX(c.addr, e.start_addr),
                      TypeOf(e), SGX_EMA_PROT_READ \cup TypeOf(e), 0)>>
        /\ \A j \in 1..Len(c.trace) :
              (c.trace[j].op = "modify_ocall" /\ "TRIM" \in c.trace[j].to
               /\ c.trace[j].addr \in PartIn(c, e)) => i < j

\* C29: an uncommit over pages of a PROT_NONE EMA raises the requested pages
\* of it to READ before it trims and leaves them so: when it has returned,
\* the requested pages record READ and the other pages of the EMA still
\* record PROT_NONE.
C29_UncommitLeavesRead ==
    [][(call'.op = "uncommit" /\ call'.ret = 0 /\ halt' = "run"
        /\ \A i \in 1..Len(call'.trace) : ~call'.trace[i].failed) =>
            \A e \in InRange(Emas(rts, user), call'.addr, call'.size) :
                ProtOf(e) = SGX_EMA_PROT_NONE =>
                    /\ RaisedFirst(call', e)
                    /\ \A p \in PageSet(e.start_addr, e.size) :
                          PermAt(Emas(rts', user'), p) =
                              IF p \in PartIn(call', e) THEN SGX_EMA_PROT_READ
                              ELSE SGX_EMA_PROT_NONE]_vars

\* The addresses ema_split is applied at: inside the user pages, across the
\* byte boundary of the bitmap of the first reserve of the heap, and inside
\* the guard behind it.
SplitAddrs ==
    UserAddrs \cup
    {mm_user_base + guard_size + k * SGX_PAGE_SIZE : k \in {7, 8}} \cup
    {UserArea - guard_size + SGX_PAGE_SIZE}

SplitFails == {{}, {1}}

\* The split of e at addr succeeded: two nodes take the place of e.
SplitInTwo(e, addr, new_lower, r) ==
    LET after == Emas(r.m.rts, r.m.user)
        halves == InRange(after, e.start_addr, e.size)
        lo == CHOOSE x \in halves : x.start_addr = e.start_addr
        hi == CHOOSE x \in halves : x.start_addr = addr
    IN  /\ Cardinality(halves) = 2
        /\ \E x \in halves : x.start_addr = e.start_addr
        /\ \E x \in halves : x.start_addr = addr
        /\ lo.size = addr - e.start_addr
        /\ ema_end(hi) = ema_end(e)
        /\ \A x \in halves :
              /\ x.alloc_flags = e.alloc_flags
              /\ x.si_flags = e.si_flags
              /\ x.handler = e.handler
              /\ x.priv = e.priv
              /\ HasMap(x) = HasMap(e)
              /\ \A p \in PageSet(x.start_addr, x.size) : HasBit(x, p) = HasBit(e, p)
        /\ r.node \notin PtrsOf(rts) \cup PtrsOf(user)
        /\ r.node = (IF new_lower THEN lo.ptr ELSE hi.ptr)
        /\ {lo.ptr, hi.ptr} = {e.ptr, r.node}

\* C30: ema_split(ema, addr, new_lower) with start < addr < end either
\* succeeds, and then [start, addr) and [addr, end) are two adjacent EMAs with
\* the alloc_flags, si_flags, handler and priv of the original, every page
\* keeps its bit, and the returned node is the new one, the lower half iff
\* new_lower; or it returns ENOMEM, and then the lists, the range of the EMA
\* and its bitmap are as before.
C30_Split ==
    Returned =>
        \A e \in Emas(rts, user), new_lower \in BOOLEAN, fail \in SplitFails,
           oob \in OobBytes :
            \A addr \in {a \in SplitAddrs : e.start_addr < a /\ a < ema_end(e)} :
                With(ema_split(Machine(fail, oob), e.ptr, addr, new_lower),
                     LAMBDA r :
                    Running(r.m) =>
                        /\ r.ret \in {0, ENOMEM}
                        /\ r.ret = 0 => SplitInTwo(e, addr, new_lower, r)
                        /\ r.ret = ENOMEM => r.m.rts = rts /\ r.m.user = user)

\* The ranges [a, b) ema_split_ex cuts out of EMA e: each of its user pages,
\* which is the lower end, the upper end or the middle of e.
CutsOf(e) ==
    {rg \in {<<a, SGX_PAGE_SIZE>> : a \in UserAddrs} :
        e.start_addr <= rg[1] /\ rg[1] + rg[2] <= ema_end(e)}

\* C31: when ema_split_ex(e, a, b) has returned the node that covers exactly
\* [a, b), ema_split_ex of that node with the same a and b splits nothing,
\* allocates nothing, returns the node itself and leaves the lists as they
\* are.
C31_SplitExIdempotent ==
    Returned =>
        \A e \in Emas(rts, user) : \A rg \in CutsOf(e) :
            With(ema_split_ex(Machine({}, 0), e.ptr, rg[1], rg[1] + rg[2]),
                 LAMBDA r :
                (r.ret = 0 /\ Running(r.m)) =>
                    /\ Node(r.m, r.node).start_addr = rg[1]
                    /\ Node(r.m, r.node).size = rg[2]
                    /\ With(ema_split_ex(r.m, r.node, rg[1], rg[1] + rg[2]),
                            LAMBDA r2 :
                                r2.ret = 0 /\ r2.node = r.node /\ r2.m = r.m))

\* the middle page of a three-page EMA can be cut out with two splits
C31_Witness ==
    /\ Returned
    /\ \E e \in Emas(rts, user) : \E rg \in CutsOf(e) :
          /\ e.start_addr < rg[1] /\ rg[1] + rg[2] < ema_end(e)
          /\ With(ema_split_ex(Machine({}, 0), e.ptr, rg[1], rg[1] + rg[2]),
                  LAMBDA r :
                     /\ r.ret = 0 /\ Running(r.m)
                     /\ Cardinality(InRange(Emas(r.m.rts, r.m.user), e.start_addr,
                                             e.size)) = 3
                     /\ ema_split_ex(r.m, r.node, rg[1], rg[1] + rg[2]).node = r.node)

\* The places mm_alloc_internal calls ema_new for: the free region of the
\* user list for a size, and the free regions at the user addresses.
NewPlaces ==
    UNION {
        (With(find_free_region(Machine({}, 0), user_ema_guard, size, SGX_PAGE_SIZE),
              LAMBDA f : IF f.found THEN {<<f.addr, size, f.next_ema>>} ELSE {}))
        \cup
        UNION {With(find_free_region_at(Machine({}, 0), user_ema_guard, a, size),
                    LAMBDA f : IF f.found THEN {<<a, size, f.next_ema>>} ELSE {}) :
                  a \in UserAddrs} :
        size \in Sizes}

OnLists(m, ptr) == ptr \in PtrsOf(m.rts) \cup PtrsOf(m.user)

\* The node x of the machine m was added by the heap that grew: it is a guard
\* or lies in a reserve the heap did not have.
AddedByHeap(m, x) ==
    \/ IsReserve(x)
    \/ \E rv \in NewReserves(hp, m.hp) : InReserveArea(<<x.start_addr, x.size>>, rv)

\* C32: ema_new for a free range [addr, addr + size) returns with its stack
\* node off the list.  When it succeeds, the one node that overlaps the
\* range is the new heap node, with the fields given; no node of a reserve
\* the heap added during the call overlaps the range.  When it fails, the
\* lists hold the nodes they held before and besides these only nodes the
\* growing heap added.
C32_NewReservesRange ==
    Returned =>
        \A pl \in NewPlaces, fail \in SplitFails :
                With(ema_new(Machine(fail, 0), pl[1], pl[2], {"COMMIT_ON_DEMAND"},
                             {"R", "W", "REG"}, 0, 0, pl[3]),
                     LAMBDA r :
                    Running(r.m) =>
                        /\ ~OnLists(r.m, -3) /\ ~OnLists(r.m, -4)
                        /\ Emas(rts, user) \subseteq
                               {x \in Emas(r.m.rts, r.m.user) : x.ptr # r.ret}
                        /\ \A x \in Emas(r.m.rts, r.m.user) \ Emas(rts, user) :
                              IF x.ptr = r.ret
                              THEN x = [ptr |-> r.ret, start_addr |-> pl[1],
                                        size |-> pl[2],
                                        alloc_flags |-> {"COMMIT_ON_DEMAND"},
                                        si_flags |-> {"R", "W", "REG"},
                                        eaccept_map |-> NoMap, handler |-> 0,
                                        priv |-> 0]
                              ELSE /\ AddedByHeap(r.m, x)
                                   /\ x \notin InRange({x}, pl[1], pl[2])
                        /\ r.ret # NULL => OnLists(r.m, r.ret))

\* ema_new made the heap add a reserve, and the reserve lies behind the range
\* of the new node
C32_Witness ==
    /\ Returned
    /\ \E pl \in NewPlaces :
          /\ With(ema_new(Machine({}, 0), pl[1], pl[2], {"COMMIT_ON_DEMAND"},
                          {"R", "W", "REG"}, 0, 0, pl[3]),
                  LAMBDA r :
                     /\ Running(r.m) /\ r.ret # NULL
                     /\ NewReserves(hp, r.m.hp) # {}
                     /\ \E rv \in NewReserves(hp, r.m.hp) :
                           rv.ptr - guard_size = pl[1] + pl[2])

(***************************************************************************)
(* The bit arrays on their own: arrays of up to MaxBits bits are made on   *)
(* the heap of the EMM with bit_array_new, filled with a pattern, and      *)
(* split at every position.  Allocations of one page fill the heap, so     *)
(* that both emalloc calls of bit_array_split come to fail.  'call' holds  *)
(* the array made, or the array split and what the split returned.         *)
(***************************************************************************)
MaxBits == 10
MaxBitCalls == 4

BitLens == {3, 8, MaxBits}

\* the bytes 10100101 00111100 and 01011010 11000011
BitPatterns == {<<165, 60>>, <<90, 195>>}

BitReady == halt = "run" /\ ncalls < MaxBitCalls

BitCall(op, ba, pos, r, ret, lower, higher) ==
    /\ rts' = r.rts
    /\ user' = r.user
    /\ hp' = r.hp
    /\ hw' = r.hw
    /\ halt' = r.halt
    /\ call' = [op |-> op, ba |-> ba, pos |-> pos, ret |-> ret,
                new_lower |-> lower, new_higher |-> higher,
                alloced |-> r.hp # hp, changed |-> TRUE]
    /\ ncalls' = ncalls + 1
    /\ UNCHANGED <<mm_user_end, lock, pc>>

BitAlloc ==
    /\ BitReady
    /\ \E kind \in RegionKinds : Public("alloc", NULL, SGX_PAGE_SIZE, kind, {}, 0)

\* 'r' is what bit_array_new returned: the array filled with the pattern
BitMade(r, pat) ==
    BitCall("bit_array_new",
            IF r.ret.ptr = NULL THEN NoMap
            ELSE [r.ret EXCEPT !.data = [i \in 1..r.ret.n_bytes |-> pat[i]]],
            0, r.m, IF r.ret.ptr = NULL THEN ENOMEM ELSE 0, NoMap, NoMap)

BitNew ==
    /\ BitReady
    /\ \E n \in BitLens, pat \in BitPatterns :
          BitMade(Run(Machine({}, 0), [op |-> "bit_array_new", size |-> n]), pat)

BitCut(r, pos) ==
    BitCall("bit_array_split", call.ba, pos, r.m, r.ret, r.new_lower, r.new_higher)

BitSplit ==
    /\ BitReady
    /\ call.op = "bit_array_new"
    /\ call.ba.ptr # NULL
    /\ \E pos \in 0..(MaxBits + 1), oob \in OobBytes :
          BitCut(Run(Machine({}, oob),
                     [op |-> "bit_array_split", ba |-> call.ba, pos |-> pos]),
                 pos)

NextBits ==
    \/ BitAlloc
    \/ BitNew
    \/ BitSplit

SpecBits == Init /\ [][NextBits]_vars

Bit(ba, i) == bit_array_test(ba, i, 0)

\* C33: bit_array_split(ba, pos) with 0 < pos < n_bits yields, when it
\* succeeds, a lower array of the first pos bits of ba and a higher array of
\* its other n_bits - pos bits, whether pos is on a byte boundary or not;
\* pos = 0 returns (NULL, ba) and pos >= n_bits returns (ba, NULL), both
\* without a change to the heap; the one failure is ENOMEM, and it leaves the
\* struct and the buffer of ba allocated.
C33_BitArraySplit ==
    call.op = "bit_array_split" =>
        LET ba == call.ba
            pos == call.pos
            lower == call.new_lower
            higher == call.new_higher
        IN  /\ pos = 0 =>
                  call.ret = 0 /\ lower = NoMap /\ higher = ba /\ ~call.alloced
            /\ pos >= ba.n_bits =>
                  call.ret = 0 /\ lower = ba /\ higher = NoMap /\ ~call.alloced
            /\ (0 < pos /\ pos < ba.n_bits) =>
                  /\ call.ret \in {0, ENOMEM}
                  /\ call.ret = 0 =>
                        /\ lower.ptr # NULL /\ higher.ptr # NULL
                        /\ lower.n_bits = pos
                        /\ higher.n_bits = ba.n_bits - pos
                        /\ \A i \in 0..(pos - 1) : Bit(lower, i) = Bit(ba, i)
                        /\ \A j \in 0..(ba.n_bits - pos - 1) :
                              Bit(higher, j) = Bit(ba, pos + j)
                  /\ call.ret = ENOMEM =>
                        /\ is_alloced(hp, payload_to_block(ba.ptr))
                        /\ is_alloced(hp, payload_to_block(ba.dptr))

\* a two-byte array split inside its first byte, so that bits are carried
\* over the byte boundary
C33_Witness ==
    /\ call.op = "bit_array_split"
    /\ call.ret = 0
    /\ call.ba.n_bits > 8
    /\ call.pos > 0 /\ call.pos < 8
    /\ \E j \in 0..(call.ba.n_bits - call.pos - 1) :
          Bit(call.new_higher, j) /\ ~Bit(call.new_higher, j + 1)

(***************************************************************************)
(* The recursion fence of the heap.  add_reserve raises adding_reserve     *)
(* before its first sgx_mm_alloc, so the emalloc calls made below it start *)
(* from the heap of the state with the fence raised.                       *)
(***************************************************************************)
FenceSizes == {1, sizeof_bit_array, sizeof_ema_t, META_RESERVE_SIZE}

InAddReserve(m) == [m EXCEPT !.hp.adding_reserve = TRUE]

\* C34: while adding_reserve is true emalloc is served from the static meta
\* reserve (or fails when that is used up) and starts no add_reserve: it
\* makes no call into the EMM, adds no reserve and leaves the fence raised;
\* add_reserve lowers the fence on success and on both failure paths, and the
\* fence is down whenever a call has returned.
C34_RecursionFence ==
    Returned =>
        /\ ~hp.adding_reserve
        /\ \A size \in FenceSizes :
              With(emalloc(InAddReserve(Machine({}, 0)), size), LAMBDA r :
                  /\ r.m.trace = <<>>
                  /\ <<r.m.rts, r.m.user, r.m.hw, r.m.halt>> = <<rts, user, hw, halt>>
                  /\ r.m.hp.adding_reserve
                  /\ r.m.hp.reserve_list = hp.reserve_list
                  /\ r.m.hp.reserve_size_increment = hp.reserve_size_increment
                  /\ r.m.hp.exact_block_list = hp.exact_block_list
                  /\ r.m.hp.large_block_list = hp.large_block_list
                  /\ IF r.ret = NULL THEN r.m.hp = InAddReserve(Machine({}, 0)).hp
                     ELSE /\ InMetaReserve(r.m.hp, payload_to_block(r.ret))
                          /\ payload_to_block(r.ret) = meta_reserve + hp.meta_used
                          /\ r.m.hp.meta_used > hp.meta_used)
        /\ \A fail \in FailPlans :
              With(add_reserve(Machine(fail, 0), initial_reserve_size), LAMBDA r :
                  Running(r.m) => ~r.m.hp.adding_reserve)

\* an alloc whose emalloc added a second reserve has returned: the nodes of
\* that reserve and of its guards lie in the meta reserve
C34_Witness ==
    /\ Returned
    /\ call.op = "alloc" /\ call.ret = 0
    /\ Len(hp.reserve_list) = 2
    /\ ~hp.adding_reserve
    /\ \E e \in Emas(rts, user) :
          /\ e.start_addr = hp.reserve_list[1].ptr
          /\ InMetaReserve(hp, payload_to_block(e.ptr))

(***************************************************************************)
(* Blocks of the meta reserve.  The nodes that add_reserve makes (the two  *)
(* guards, the reserve and its bitmap) are blocks of the meta reserve; a   *)
(* node of the heap comes from a reserve.                                  *)
(***************************************************************************)
MetaBlocks(h) == {b \in DOMAIN h.hdr : InMetaReserve(h, b)}

MetaNode(h, e) == InMetaReserve(h, payload_to_block(e.ptr))

\* efree of a block of the meta reserve: nothing with the fence raised, an
\* abort that changes nothing else with the fence down
MetaFree ==
    Returned =>
        \A b \in MetaBlocks(hp) :
            /\ efree(InAddReserve(Machine({}, 0)), block_to_payload(b))
                   = InAddReserve(Machine({}, 0))
            /\ efree(Machine({}, 0), block_to_payload(b))
                   = Halt(Machine({}, 0), "abort")
            /\ ~can_erealloc(hp, block_to_payload(b))

\* a dealloc of the whole range of an EMA whose node lies in the meta reserve
\* (a guard, or the reserve itself once its pages are trimmed) gets to
\* ema_destroy and aborts there
MetaDealloc ==
    Returned =>
        \A e \in Emas(rts, user) :
            MetaNode(hp, e) =>
                With(Run(Machine({}, 0),
                         PublicCall("dealloc", e.start_addr, e.size, {})),
                     LAMBDA r : r.m.halt = "abort")

\* a call that returns has destroyed no node of the meta reserve
MetaDestroy ==
    halt' = "run" =>
        \A e \in Emas(rts, user) :
            MetaNode(hp, e) => \E f \in Emas(rts', user') : f.ptr = e.ptr

\* C35: efree of a block that lies in the meta reserve is a no-op while
\* adding_reserve is true and aborts when it is false; so a call that
\* destroys an EMA whose node is in the meta reserve outside add_reserve,
\* such as a user dealloc over a guard or over a reserve of the heap, aborts
\* and returns no error.
C35_MetaReserveFree == [](MetaFree /\ MetaDealloc) /\ [][MetaDestroy]_vars

\* a user alloc made the heap add a reserve inside the user area, and a user
\* dealloc over the first guard of that reserve aborts
C35_Witness ==
    /\ Returned
    /\ call.op = "alloc" /\ call.ret = 0
    /\ \E e \in Emas(rts, user) :
          /\ MetaNode(hp, e)
          /\ e.alloc_flags = {"RESERVE"}
          /\ e.start_addr >= UserArea
          /\ e.start_addr \in UserAddrs
          /\ Run(Machine({}, 0),
                 PublicCall("dealloc", e.start_addr, e.size, {})).m.halt = "abort"

(***************************************************************************)
(* The blocks of the heap as the claims about efree speak of them.         *)
(***************************************************************************)
\* the allocated blocks that lie in the used part of a reserve
HeapBlocks(h) ==
    {b \in DOMAIN h.hdr :
        /\ is_alloced(h, b)
        /\ ~InMetaReserve(h, b)
        /\ find_used_in_reserve(h, b, block_size(h, b)) # NULL}

OnFreeList(h, b) ==
    \/ \E i \in 1..Len(h.large_block_list) : h.large_block_list[i] = b
    \/ \E l \in DOMAIN h.exact_block_list :
          \E i \in 1..Len(h.exact_block_list[l]) : h.exact_block_list[l][i] = b

\* the block that starts where b ends, in the used part of the reserve of b
RightBlock(h, b) ==
    With(h.reserve_list[find_used_in_reserve(h, b, block_size(h, b))], LAMBDA r :
        IF block_end(h, b) < r.base + r.used THEN block_end(h, b) ELSE NULL)

\* the blocks that end where b starts
LeftBlocks(h, b) == {l \in DOMAIN h.hdr : l < b /\ block_end(h, l) = b}

\* C36: efree merges the freed block with its right neighbour and only with
\* it: a free right neighbour and the block become one free block of the sum
\* of the sizes and the neighbour leaves its free list; an allocated right
\* neighbour is left as it is; the left neighbour is never merged.
C36_MergeRight ==
    Returned =>
        \A b \in HeapBlocks(hp) :
            With2(efree(Machine({}, 0), block_to_payload(b)), RightBlock(hp, b),
                  LAMBDA r, nr :
                /\ Running(r)
                /\ (nr # NULL /\ ~is_alloced(hp, nr)) =>
                      /\ ~OnFreeList(r.hp, nr)
                      /\ \/ /\ OnFreeList(r.hp, b)
                            /\ Header(r.hp, b) = block_size(hp, b) + block_size(hp, nr)
                         \/ /\ b \notin DOMAIN r.hp.hdr
                            /\ RightBlock(hp, nr) = NULL
                /\ (nr # NULL /\ is_alloced(hp, nr)) =>
                      /\ Header(r.hp, nr) = Header(hp, nr)
                      /\ ~OnFreeList(r.hp, nr)
                      /\ OnFreeList(r.hp, b)
                      /\ Header(r.hp, b) = block_size(hp, b)
                /\ \A l \in LeftBlocks(hp, b) :
                      /\ Header(r.hp, l) = Header(hp, l)
                      /\ OnFreeList(r.hp, l) = OnFreeList(hp, l))

(***************************************************************************)
(* The reserves of the heap in the order add_reserve made them.            *)
(* new_reserve puts a reserve at the head of reserve_list and takes the    *)
(* mm_reserve_t at its start from the bytes it was given.                  *)
(***************************************************************************)
ReserveSize(h, k) ==
    h.reserve_list[Len(h.reserve_list) + 1 - k].size + sizeof_mm_reserve_t

\* C37: the first reserve has initial_reserve_size bytes, every later
\* reserve twice the bytes of the one added before it, and no reserve more
\* than max_emalloc_size bytes.
C37_ReserveSizes ==
    Returned =>
        \A k \in 1..Len(hp.reserve_list) :
            /\ k = 1 => ReserveSize(hp, k) = initial_reserve_size
            /\ k > 1 => ReserveSize(hp, k) = 2 * ReserveSize(hp, k - 1)
            /\ ReserveSize(hp, k) <= max_emalloc_size

(***************************************************************************)
(* The heap on its own: emalloc and efree called in any order on the heap  *)
(* as init leaves it, with one more reserve of HeapBytes bytes at HeapBase *)
(* that has room for blocks of the large list (the reserves of the scaled  *)
(* enclave hold exact blocks only).  'call.live' is the set of the         *)
(* pointers emalloc returned that were not freed, each with the size asked *)
(* for.                                                                    *)
(***************************************************************************)
HeapBytes == 4608
MaxHeapCalls == 7

HeapBase == 512 * SGX_PAGE_SIZE

\* blocks of the first exact list, of the large list, and of the large list
\* with a tail left over when the smaller large block is cut from them
HeapSizes == {header_size, max_exact_size, max_exact_size + 48}

HeapCall(op, size, r, ret, live) ==
    /\ rts' = r.rts
    /\ user' = r.user
    /\ hp' = r.hp
    /\ hw' = r.hw
    /\ halt' = r.halt
    /\ call' = [op |-> op, size |-> size, ret |-> ret, live |-> live,
                changed |-> TRUE]
    /\ ncalls' = ncalls + 1
    /\ UNCHANGED <<mm_user_end, lock, pc>>

\* 'r' is what sgx_mm_init returned
HeapBooted(r, user_end) ==
    /\ rts = r.m.rts
    /\ user = r.m.user
    /\ hp = new_reserve(r.m.hp, HeapBase, HeapBytes)
    /\ hw = r.m.hw
    /\ halt = r.m.halt
    /\ mm_user_end = user_end
    /\ call = [op |-> "init", size |-> 0, ret |-> r.ret, live |-> {},
               changed |-> TRUE]
    /\ ncalls = 0
    /\ lock = [owner |-> 0, depth |-> 0, deep |-> 0]
    /\ pc = [t \in Threads |-> "out"]

InitHeap == \E user_end \in UserEnds : HeapBooted(sgx_mm_init(user_end), user_end)

HeapReady == halt = "run" /\ ncalls < MaxHeapCalls

HeapGave(r, size) ==
    HeapCall("emalloc", size, r.m, r.ret,
             IF r.ret = NULL THEN call.live
             ELSE call.live \cup {[ptr |-> r.ret, size |-> size]})

HeapAlloc ==
    /\ HeapReady
    /\ \E size \in HeapSizes : HeapGave(emalloc(Machine({}, 0), size), size)

HeapFree ==
    /\ HeapReady
    /\ \E a \in call.live :
          HeapCall("efree", a.size,
                   Run(Machine({}, 0), [op |-> "efree", addr |-> a.ptr]).m,
                   a.ptr, call.live \ {a})

NextHeap ==
    \/ HeapAlloc
    \/ HeapFree

SpecHeap == InitHeap /\ [][NextHeap]_vars

\* the bytes of the block of a live pointer
BlockOf(a) == payload_to_block(a.ptr)

Apart(h, b1, b2) == block_end(h, b1) <= b2 \/ block_end(h, b2) <= b1

FreeBlocks(h) == {b \in DOMAIN h.hdr : OnFreeList(h, b)}

InUsedOrMeta(h, b) ==
    \/ find_used_in_reserve(h, b, block_size(h, b)) # NULL
    \/ b >= meta_reserve /\ block_end(h, b) <= meta_reserve + h.meta_used

\* C38: after any sequence of emalloc and efree calls every live pointer
\* designates a block marked allocated, of at least the size asked for
\* behind its header, wholly inside the used part of one reserve or inside
\* the meta reserve; no two live blocks overlap, and no live block overlaps
\* a block on a free list.
C38_HeapSound ==
    Returned =>
        /\ \A a \in call.live :
              /\ is_alloced(hp, BlockOf(a))
              /\ block_size(hp, BlockOf(a)) >= a.size + header_size
              /\ InUsedOrMeta(hp, BlockOf(a))
        /\ \A a1, a2 \in call.live :
              a1 # a2 => Apart(hp, BlockOf(a1), BlockOf(a2))
        /\ \A a \in call.live : \A f \in FreeBlocks(hp) :
              /\ ~is_alloced(hp, f)
              /\ Apart(hp, BlockOf(a), f)

\* a block cut from a larger block of the large list is live next to the
\* tail, which is on a free list, and another block is live
C38_Witness ==
    /\ Returned
    /\ call.op = "emalloc" /\ call.ret # NULL
    /\ Cardinality(call.live) >= 2
    /\ \E f \in FreeBlocks(hp) : f = block_end(hp, payload_to_block(call.ret))

\* C39: every efree of a block emalloc returned terminates, by returning or
\* by abort, whether its right neighbour is allocated, free or missing: the
\* loop of possibly_merge and the loop of merge_large_blocks_to_reserve exit.
C39_EfreeTerminates ==
    /\ halt \in {"run", "abort"}
    /\ Returned =>
          \A a \in call.live :
              efree(Machine({}, 0), a.ptr).halt \in {"run", "abort"}

\* an efree has returned whose block has a live block right behind it
C39_Witness ==
    /\ Returned
    /\ call.op = "efree"
    /\ OnFreeList(hp, payload_to_block(call.ret))
    /\ \E a \in call.live :
          BlockOf(a) = block_end(hp, payload_to_block(call.ret))

(***************************************************************************)
(* Bitmap accesses.  A reset of bits outside the buffer of the map is      *)
(* recorded in 'ub' of the call; a test outside the buffer reads the byte  *)
(* the oracle gives, so a call that makes one can end in two ways.         *)
(***************************************************************************)
OnePage == {<<a, SGX_PAGE_SIZE>> : a \in UserAddrs}

SameWhateverIsOutside(op, rg) ==
    With2(Run(Machine({}, 0), PublicCall(op, rg[1], rg[2], {})),
          Run(Machine({}, 255), PublicCall(op, rg[1], rg[2], {})),
          LAMBDA r0, r1 : r0 = [r1 EXCEPT !.m.oob = 0])

\* C40: every test, set or reset of the bit of a page is made on the map of
\* the EMA that holds the page, at an index inside that map: no call resets
\* bits outside the buffer of a map, and no uncommit or dealloc of a page
\* ends in a way that depends on a byte outside a map.
C40_BitmapAccessInside ==
    /\ ~call.ub
    /\ Returned =>
          \A rg \in OnePage :
              /\ SameWhateverIsOutside("uncommit", rg)
              /\ SameWhateverIsOutside("dealloc", rg)

====
